---- MODULE Spec2Model ----
(***************************************************************************)
(* Verification model of aws-shell (python).                               *)
(*                                                                         *)
(*   SpecShell  - CommandRegistry (commands/__init__.py) and the REPL loop *)
(*                AWSShell.run / AWSShell._execute (app.py).               *)
(*   SpecFilter, SpecTable, SpecQuery - ResourceTable filter, sort, find,  *)
(*                select and slicing (utils/table.py, utils/search.py).    *)
(*   SpecOutput - ResourceTable.render and .json (utils/table.py).         *)
(*   SpecAI     - the once-only AI conversation (commands/ai_cmd.py).      *)
(*   SpecRepl   - the Enter key of the python REPL                         *)
(*                (commands/python_cmd.py).                                *)
(*   SpecEc2    - ec2 start-instance / stop-instance (commands/ec2.py).    *)
(*   SpecAILive - SpecAI with the threads scheduled fairly.                *)
(*   SpecLine   - one input line of the shell, from text to handler        *)
(*                (app.py, commands/ec2.py).                               *)
(*   SpecMeta   - columns and title along chains of ResourceTable calls    *)
(*                (utils/table.py).                                        *)
(*   SpecBlock  - multi-line input at the python REPL                      *)
(*                (commands/python_cmd.py).                                *)
(*   SpecAssist - the ai command and its approval loop                     *)
(*                (commands/ai_cmd.py).                                    *)
(*   SpecSession - configuration and session manager, command by command   *)
(*                (config.py, utils/aws_session.py, commands/general.py).  *)
(*   SpecClients - the session manager shared by the main thread and the   *)
(*                pre-warm worker (utils/aws_session.py).                  *)
(*                                                                         *)
(* Python strings are modelled as sequences of one-character strings, so   *)
(* that lower(), startswith(), split() ... are computed, not assumed.      *)
(***************************************************************************)
EXTENDS Integers, Sequences, FiniteSets, TLC

(***************************************************************************)
(* Python str operations on character sequences                            *)
(***************************************************************************)

\* str.lower() on one character
LowerChar(c) ==
    CASE c = "A" -> "a" [] c = "B" -> "b" [] c = "C" -> "c" [] c = "D" -> "d"
      [] c = "E" -> "e" [] c = "F" -> "f" [] c = "G" -> "g" [] c = "H" -> "h"
      [] c = "I" -> "i" [] c = "J" -> "j" [] c = "K" -> "k" [] c = "L" -> "l"
      [] c = "M" -> "m" [] c = "N" -> "n" [] c = "O" -> "o" [] c = "P" -> "p"
      [] c = "Q" -> "q" [] c = "R" -> "r" [] c = "S" -> "s" [] c = "T" -> "t"
      [] c = "U" -> "u" [] c = "V" -> "v" [] c = "W" -> "w" [] c = "X" -> "x"
      [] c = "Y" -> "y" [] c = "Z" -> "z"
      [] OTHER -> c

\* str.lower()
Lower(s) == [i \in 1..Len(s) |-> LowerChar(s[i])]

\* str.startswith(p)
StartsWith(s, p) == Len(p) <= Len(s) /\ SubSeq(s, 1, Len(p)) = p

\* str.endswith(p)
EndsWith(s, p) == Len(p) <= Len(s) /\ SubSeq(s, Len(s) - Len(p) + 1, Len(s)) = p

\* p in s
Contains(s, p) == \E i \in 0..(Len(s) - Len(p)) : SubSeq(s, i + 1, i + Len(p)) = p

\* str.lstrip(c) / str.rstrip(c) for a single character c
RECURSIVE LStrip(_, _)
LStrip(s, c) == IF s # <<>> /\ Head(s) = c THEN LStrip(Tail(s), c) ELSE s

RECURSIVE RStrip(_, _)
RStrip(s, c) ==
    IF s # <<>> /\ s[Len(s)] = c THEN RStrip(SubSeq(s, 1, Len(s) - 1), c) ELSE s

\* str.split(c): the pieces between the occurrences of the character c
RECURSIVE Split(_, _)
Split(s, c) ==
    IF \A i \in 1..Len(s) : s[i] # c
    THEN <<s>>
    ELSE LET i == CHOOSE k \in 1..Len(s) : s[k] = c /\ \A m \in 1..(k - 1) : s[m] # c
         IN <<SubSeq(s, 1, i - 1)>> \o Split(SubSeq(s, i + 1, Len(s)), c)

\* sep.join(parts)
RECURSIVE Join(_, _)
Join(parts, sep) ==
    IF parts = <<>> THEN <<>>
    ELSE IF Len(parts) = 1 THEN parts[1]
    ELSE parts[1] \o sep \o Join(Tail(parts), sep)

(***************************************************************************)
(* Python values: records tagged with their type.  A dict is the sequence  *)
(* of its (key, value) pairs in insertion order, keys being strings.       *)
(***************************************************************************)

PyNone == [t |-> "none"]
PyStr(s) == [t |-> "str", v |-> s]
PyInt(n) == [t |-> "int", v |-> n]
PyBool(b) == [t |-> "bool", v |-> b]
PyList(xs) == [t |-> "list", v |-> xs]
PyDict(pairs) == [t |-> "dict", v |-> pairs]

\* datetime.datetime(y, mo, d, h, mi, s) and datetime.date(y, mo, d)
PyDateTime(y, mo, d, h, mi, sec) == [t |-> "datetime", v |-> <<y, mo, d, h, mi, sec>>]
PyDate(y, mo, d) == [t |-> "date", v |-> <<y, mo, d>>]

\* an object of a type neither json nor the table code knows (a set, bytes,
\* a Decimal ...), given by the text str() and repr() return for it
PyObj(text) == [t |-> "obj", v |-> text]

\* isinstance(x, (datetime, date))
IsDateLike(x) == x.t \in {"datetime", "date"}

\* isinstance(x, dict) / isinstance(x, (dict, list))
IsDict(x) == x.t = "dict"
IsComplex(x) == x.t \in {"dict", "list"}

\* dict.get(k) and dict.get(k, default)
DictGetOr(d, k, default) ==
    IF \E i \in 1..Len(d.v) : d.v[i][1] = k
    THEN d.v[CHOOSE i \in 1..Len(d.v) : d.v[i][1] = k][2]
    ELSE default

DictGet(d, k) == DictGetOr(d, k, PyNone)

\* dict.values()
DictValues(d) == [i \in 1..Len(d.v) |-> d.v[i][2]]

\* bool(x)
Truthy(x) ==
    CASE x.t = "none" -> FALSE
      [] x.t = "bool" -> x.v
      [] x.t = "int"  -> x.v # 0
      [] OTHER        -> x.v # <<>>

\* str(n) for a small natural number
Digits == <<"0", "1", "2", "3", "4", "5", "6", "7", "8", "9">>

RECURSIVE IntStr(_)
IntStr(n) == IF n < 10 THEN <<Digits[n + 1]>> ELSE IntStr(n \div 10) \o <<Digits[(n % 10) + 1]>>

\* two-digit, zero-padded decimal of n < 100
Pad2(n) == <<Digits[(n \div 10) + 1], Digits[(n % 10) + 1]>>

\* date.isoformat() / datetime.isoformat(sep) of a naive value without
\* microseconds
IsoFormatSep(x, sep) ==
    LET day == IntStr(x.v[1]) \o <<"-">> \o Pad2(x.v[2]) \o <<"-">> \o Pad2(x.v[3])
    IN IF x.t = "date" THEN day
       ELSE day \o sep \o Pad2(x.v[4]) \o <<":">> \o Pad2(x.v[5]) \o <<":">> \o Pad2(x.v[6])

\* x.isoformat()
IsoFormat(x) == IsoFormatSep(x, <<"T">>)

\* repr(x)
RECURSIVE Repr(_)
Repr(x) ==
    CASE x.t = "none" -> <<"N", "o", "n", "e">>
      [] x.t = "obj"  -> x.v
      [] x.t \in {"datetime", "date"} ->
           (IF x.t = "date"
            THEN <<"d", "a", "t", "e", "t", "i", "m", "e", ".", "d", "a", "t", "e", "(">>
            ELSE <<"d", "a", "t", "e", "t", "i", "m", "e", ".",
                   "d", "a", "t", "e", "t", "i", "m", "e", "(">>)
           \o Join([i \in 1..(IF x.t = "datetime" /\ x.v[6] = 0 THEN 5 ELSE Len(x.v)) |->
                      IntStr(x.v[i])], <<",", " ">>) \o <<")">>
      [] x.t = "bool" -> IF x.v THEN <<"T", "r", "u", "e">> ELSE <<"F", "a", "l", "s", "e">>
      [] x.t = "int"  -> IntStr(x.v)
      [] x.t = "str"  -> <<"'">> \o x.v \o <<"'">>
      [] x.t = "list" -> <<"[">> \o Join([i \in 1..Len(x.v) |-> Repr(x.v[i])], <<",", " ">>) \o <<"]">>
      [] x.t = "dict" ->
           <<"{">> \o Join([i \in 1..Len(x.v) |->
                              <<"'">> \o x.v[i][1] \o <<"'", ":", " ">> \o Repr(x.v[i][2])],
                           <<",", " ">>) \o <<"}">>

\* str(x)
StrOf(x) ==
    CASE x.t = "str" -> x.v
      [] x.t \in {"datetime", "date"} -> IsoFormatSep(x, <<" ">>)
      [] OTHER -> Repr(x)

\* the elements a `for` loop over x visits (x a list, dict, str, or falsy)
IterOf(x) ==
    CASE x.t = "list" -> x.v
      [] x.t = "dict" -> [i \in 1..Len(x.v) |-> PyStr(x.v[i][1])]
      [] x.t = "str"  -> [i \in 1..Len(x.v) |-> PyStr(<<x.v[i]>>)]
      [] OTHER        -> <<>>

(***************************************************************************)
(* utils/table.py: field lookup                                            *)
(***************************************************************************)

K_Tags  == <<"T", "a", "g", "s">>
K_Key   == <<"K", "e", "y">>
K_Value == <<"V", "a", "l", "u", "e">>
TagsDot == <<"T", "a", "g", "s", ".">>

\* the "Tags." branch reading the tag's name from the field "Name", not "Key"
TagValueWrongField(item, name) ==
    LET got  == DictGet(item, K_Tags)
        tags == IF Truthy(got) THEN IterOf(got) ELSE <<>>
        hit(i) == IsDict(tags[i]) /\ DictGet(tags[i], <<"N", "a", "m", "e">>) = PyStr(name)
    IN IF \E i \in 1..Len(tags) : hit(i)
       THEN DictGetOr(tags[CHOOSE i \in 1..Len(tags) : hit(i) /\ \A j \in 1..(i - 1) : ~hit(j)],
                      K_Value, PyStr(<<>>))
       ELSE PyStr(<<>>)

\* _get_value, the "Tags." branch: the Value of the first tag whose Key is name
TagValue(item, name) ==
    LET got  == DictGet(item, K_Tags)
        tags == IF Truthy(got) THEN IterOf(got) ELSE <<>>
        hit(i) == IsDict(tags[i]) /\ DictGet(tags[i], K_Key) = PyStr(name)
    IN IF \E i \in 1..Len(tags) : hit(i)
       THEN DictGetOr(tags[CHOOSE i \in 1..Len(tags) : hit(i) /\ \A j \in 1..(i - 1) : ~hit(j)],
                      K_Value, PyStr(<<>>))
       ELSE PyStr(<<>>)

\* _get_value, the dotted-path loop
RECURSIVE Traverse(_, _)
Traverse(current, parts) ==
    IF parts = <<>> THEN current
    ELSE IF IsDict(current) THEN Traverse(DictGet(current, Head(parts)), Tail(parts))
    ELSE PyNone

\* _get_value(item, key)
GetValue(item, key) ==
    IF ~IsDict(item) THEN item
    ELSE IF StartsWith(key, TagsDot) THEN TagValue(item, SubSeq(key, 6, Len(key)))
    ELSE Traverse(item, Split(key, "."))

(***************************************************************************)
(* utils/table.py: ResourceTable.filter                                    *)
(***************************************************************************)

Star == <<"*">>

\* filter, keyword mode, lines 337-369 for one record and one key=value pair:
\* TRUE iff the record is appended to `result`
MatchKw(item, key, value) ==
    LET value_str == StrOf(value)
        value_lower == Lower(value_str)
        has_prefix_star == StartsWith(value_str, Star)
        has_suffix_star == EndsWith(value_str, Star)
        match_val == RStrip(LStrip(value_lower, "*"), "*")
        direct == GetValue(item, key)
        item_val == IF direct.t = "none" THEN GetValue(item, TagsDot \o key) ELSE direct
    IN IF ~IsDict(item) THEN FALSE
       ELSE IF item_val.t = "none" THEN FALSE
       ELSE IF IsComplex(item_val)
       THEN LET vals == IF IsDict(item_val) THEN DictValues(item_val) ELSE item_val.v
            IN \E i \in 1..Len(vals) : Contains(Lower(StrOf(vals[i])), match_val)
       ELSE LET item_str == Lower(StrOf(item_val))
            IN IF has_prefix_star /\ has_suffix_star THEN Contains(item_str, match_val)
               ELSE IF has_prefix_star THEN EndsWith(item_str, match_val)
               ELSE IF has_suffix_star THEN StartsWith(item_str, match_val)
               ELSE item_str = match_val

\* one pass of the `for key, value in kwargs.items()` loop with the branches
\* for a leading and for a trailing star exchanged
FilterPassSwapped(filtered, kv) ==
    LET value_str == StrOf(kv[2])
        flipped == IF StartsWith(value_str, Star) /\ ~EndsWith(value_str, Star)
                   THEN PyStr(LStrip(value_str, "*") \o Star)
                   ELSE IF EndsWith(value_str, Star) /\ ~StartsWith(value_str, Star)
                   THEN PyStr(Star \o RStrip(value_str, "*"))
                   ELSE kv[2]
    IN SelectSeq(filtered, LAMBDA item : MatchKw(item, kv[1], flipped))

\* one pass that skips the first record (for item in filtered[1:])
FilterPassSkipFirst(filtered, kv) ==
    SelectSeq(IF filtered = <<>> THEN <<>> ELSE Tail(filtered),
              LAMBDA item : MatchKw(item, kv[1], kv[2]))

\* one pass of the `for key, value in kwargs.items()` loop: the new `filtered`
FilterPass(filtered, kv) == SelectSeq(filtered, LAMBDA item : MatchKw(item, kv[1], kv[2]))

\* keyword mode applying only the first pair
FilterKwFirstOnly(data, kwargs) ==
    IF kwargs = <<>> THEN data ELSE FilterPass(data, Head(kwargs))

\* filter(**kwargs): kwargs is the sequence of (key, value) pairs, keys distinct
RECURSIVE FilterKw(_, _)
FilterKw(data, kwargs) ==
    IF kwargs = <<>> THEN data
    ELSE FilterKw(FilterPass(data, Head(kwargs)), Tail(kwargs))

\* filter, predicate mode: the predicates fn used in the model, applied to one
\* record: "true" / "false" (truthiness of the result) or "raise"
\*   is_dict  : lambda i: isinstance(i, dict)
\*   name_web : lambda i: i['Name'].startswith('web')
PredResult(fn, item) ==
    CASE fn = "is_dict" -> IF IsDict(item) THEN "true" ELSE "false"
      [] fn = "name_web" ->
           IF ~IsDict(item) THEN "raise"
           ELSE IF \A i \in 1..Len(item.v) : item.v[i][1] # <<"N", "a", "m", "e">> THEN "raise"
           ELSE LET n == DictGet(item, <<"N", "a", "m", "e">>)
                IN IF n.t # "str" THEN "raise"
                   ELSE IF StartsWith(n.v, <<"w", "e", "b">>) THEN "true" ELSE "false"

Preds == {"is_dict", "name_web"}

\* filter(fn): [item for item in self._data if fn(item)]
FilterFn(data, fn) == SelectSeq(data, LAMBDA item : PredResult(fn, item) = "true")

(***************************************************************************)
(* utils/table.py: ResourceTable.sort, find, select, __getitem__           *)
(***************************************************************************)

\* the characters of the model in code point order
CodeOrder ==
    <<" ", "'", "*", ",", "-", ".",
      "0", "1", "2", "3", "4", "5", "6", "7", "8", "9", ":",
      "A", "B", "C", "D", "E", "F", "G", "H", "I", "J", "K", "L", "M",
      "N", "O", "P", "Q", "R", "S", "T", "U", "V", "W", "X", "Y", "Z",
      "[", "]",
      "a", "b", "c", "d", "e", "f", "g", "h", "i", "j", "k", "l", "m",
      "n", "o", "p", "q", "r", "s", "t", "u", "v", "w", "x", "y", "z",
      "{", "}">>

\* ord(c), up to an order-preserving renumbering
Ord(c) == CHOOSE i \in 1..Len(CodeOrder) : CodeOrder[i] = c

\* a < b on str
StrLess(a, b) ==
    \/ Len(a) < Len(b) /\ SubSeq(b, 1, Len(a)) = a
    \/ \E i \in 1..Len(a) :
         /\ i <= Len(b)
         /\ SubSeq(a, 1, i - 1) = SubSeq(b, 1, i - 1)
         /\ Ord(a[i]) < Ord(b[i])

\* sort: key=lambda x: str(_get_value(x, key) or "")
SortKey(x, key) ==
    LET got == GetValue(x, key) IN IF Truthy(got) THEN StrOf(got) ELSE <<>>

\* sorted(data, key=..., reverse=reverse): stable in both directions
RECURSIVE Sorted(_, _, _)
Sorted(data, key, reverse) ==
    IF data = <<>> THEN <<>>
    ELSE LET n == Len(data)
             x == data[n]
             front == Sorted(SubSeq(data, 1, n - 1), key, reverse)
             staysBefore(y) == IF reverse THEN ~StrLess(SortKey(y, key), SortKey(x, key))
                                          ELSE ~StrLess(SortKey(x, key), SortKey(y, key))
             pos == Cardinality({i \in 1..Len(front) : staysBefore(front[i])})
         IN SubSeq(front, 1, pos) \o <<x>> \o SubSeq(front, pos + 1, Len(front))

\* utils/search.py flatten_json(data, prefix): sequence of (path, str(value))
RECURSIVE FlattenJson(_, _)
FlattenJson(data, prefix) ==
    LET Sub(path, value) == IF IsComplex(value) THEN FlattenJson(value, path)
                            ELSE <<<<path, StrOf(value)>>>>
        RECURSIVE Walk(_)
        Walk(i) ==
            IF i > Len(data.v) THEN <<>>
            ELSE IF IsDict(data)
            THEN Sub(IF prefix # <<>> THEN prefix \o <<".">> \o data.v[i][1] ELSE data.v[i][1],
                     data.v[i][2]) \o Walk(i + 1)
            ELSE Sub(prefix \o <<"[">> \o IntStr(i - 1) \o <<"]">>, data.v[i]) \o Walk(i + 1)
    IN IF IsComplex(data) THEN Walk(1) ELSE <<<<prefix, StrOf(data)>>>>

\* find matching the keyword at the start of a path or value only
FindMatchPrefix(item, keyword) ==
    LET keyword_lower == Lower(keyword)
    IN IF IsDict(item)
       THEN LET flat == FlattenJson(item, <<>>)
            IN \E i \in 1..Len(flat) :
                 \/ StartsWith(Lower(flat[i][2]), keyword_lower)
                 \/ StartsWith(Lower(flat[i][1]), keyword_lower)
       ELSE StartsWith(Lower(StrOf(item)), keyword_lower)

\* find: does the record match the keyword
FindMatch(item, keyword) ==
    LET keyword_lower == Lower(keyword)
    IN IF IsDict(item)
       THEN LET flat == FlattenJson(item, <<>>)
            IN \E i \in 1..Len(flat) :
                 \/ Contains(Lower(flat[i][2]), keyword_lower)
                 \/ Contains(Lower(flat[i][1]), keyword_lower)
       ELSE Contains(Lower(StrOf(item)), keyword_lower)

\* find(keyword): the matching records
Find(data, keyword) == SelectSeq(data, LAMBDA item : FindMatch(item, keyword))

\* the title find gives its result: f"Search: '{keyword}'"
SearchTitle(keyword) ==
    <<"S", "e", "a", "r", "c", "h", ":", " ", "'">> \o keyword \o <<"'">>

\* str.strip()
Strip(s) == RStrip(LStrip(s, " "), " ")

\* select: the column spec of one key, "field" or "field:Header"
ColSpec(col) ==
    IF \E i \in 1..Len(col) : col[i] = ":"
    THEN LET i == CHOOSE k \in 1..Len(col) : col[k] = ":" /\ \A m \in 1..(k - 1) : col[m] # ":"
         IN <<Strip(SubSeq(col, 1, i - 1)), Strip(SubSeq(col, i + 1, Len(col)))>>
    ELSE <<Strip(col), Strip(col)>>

\* select(*keys): col_specs
ColSpecs(keys) == [i \in 1..Len(keys) |-> ColSpec(keys[i])]

\* one bound of a slice applied to a list of length n (None, or an int that
\* may be negative or out of range)
SliceBound(b, n, default) ==
    IF b.t = "none" THEN default
    ELSE IF b.v < 0 THEN (IF n + b.v < 0 THEN 0 ELSE n + b.v)
    ELSE IF b.v > n THEN n ELSE b.v

\* data[start:stop]
Slice(data, start, stop) ==
    SubSeq(data, SliceBound(start, Len(data), 0) + 1, SliceBound(stop, Len(data), Len(data)))

(***************************************************************************)
(* utils/table.py: cell formatting and render                              *)
(***************************************************************************)

\* _STATUS_COLORS.get(s): the colour of a known status value, or "none"
StatusColor(s) ==
    CASE s = <<"r", "u", "n", "n", "i", "n", "g">> -> "green"
      [] s = <<"a", "v", "a", "i", "l", "a", "b", "l", "e">> -> "green"
      [] s = <<"a", "c", "t", "i", "v", "e">> -> "green"
      [] s = <<"e", "n", "a", "b", "l", "e", "d">> -> "green"
      [] s = <<"i", "n", "-", "u", "s", "e">> -> "green"
      [] s = <<"d", "e", "p", "l", "o", "y", "e", "d">> -> "green"
      [] s = <<"c", "o", "m", "p", "l", "e", "t", "e">> -> "green"
      [] s = <<"c", "r", "e", "a", "t", "e", "_", "c", "o", "m", "p", "l", "e", "t", "e">> -> "green"
      [] s = <<"u", "p", "d", "a", "t", "e", "_", "c", "o", "m", "p", "l", "e", "t", "e">> -> "green"
      [] s = <<"o", "k">> -> "green"
      [] s = <<"h", "e", "a", "l", "t", "h", "y">> -> "green"
      [] s = <<"t", "r", "u", "e">> -> "green"
      [] s = <<"p", "e", "n", "d", "i", "n", "g">> -> "yellow"
      [] s = <<"m", "o", "d", "i", "f", "y", "i", "n", "g">> -> "yellow"
      [] s = <<"u", "p", "d", "a", "t", "i", "n", "g">> -> "yellow"
      [] s = <<"i", "n", "_", "p", "r", "o", "g", "r", "e", "s", "s">> -> "yellow"
      [] s = <<"c", "r", "e", "a", "t", "e", "_", "i", "n", "_", "p", "r", "o", "g", "r", "e", "s", "s">> -> "yellow"
      [] s = <<"u", "p", "d", "a", "t", "e", "_", "i", "n", "_", "p", "r", "o", "g", "r", "e", "s", "s">> -> "yellow"
      [] s = <<"s", "h", "u", "t", "t", "i", "n", "g", "-", "d", "o", "w", "n">> -> "yellow"
      [] s = <<"s", "t", "o", "p", "p", "i", "n", "g">> -> "yellow"
      [] s = <<"c", "r", "e", "a", "t", "i", "n", "g">> -> "yellow"
      [] s = <<"d", "e", "l", "e", "t", "i", "n", "g">> -> "yellow"
      [] s = <<"i", "n", "s", "u", "f", "f", "i", "c", "i", "e", "n", "t", "_", "d", "a", "t", "a">> -> "yellow"
      [] s = <<"s", "t", "o", "p", "p", "e", "d">> -> "red"
      [] s = <<"t", "e", "r", "m", "i", "n", "a", "t", "e", "d">> -> "dim"
      [] s = <<"d", "e", "l", "e", "t", "e", "d">> -> "dim"
      [] s = <<"d", "i", "s", "a", "b", "l", "e", "d">> -> "dim"
      [] s = <<"i", "n", "a", "c", "t", "i", "v", "e">> -> "dim"
      [] s = <<"f", "a", "i", "l", "e", "d">> -> "red"
      [] s = <<"e", "r", "r", "o", "r">> -> "red"
      [] s = <<"a", "l", "a", "r", "m">> -> "red"
      [] s = <<"d", "e", "l", "e", "t", "e", "_", "f", "a", "i", "l", "e", "d">> -> "red"
      [] s = <<"r", "o", "l", "l", "b", "a", "c", "k", "_", "c", "o", "m", "p", "l", "e", "t", "e">> -> "red"
      [] s = <<"f", "a", "l", "s", "e">> -> "red"
      [] OTHER -> "none"

IsDigit(c) == c \in {"0", "1", "2", "3", "4", "5", "6", "7", "8", "9"}
IsHex(c) == IsDigit(c) \/ c \in {"a", "b", "c", "d", "e", "f"}

\* _ID_PATTERN: ^(i|vpc|subnet|sg|vol|snap|ami|rtb|igw|nat|eni|acl)-[0-9a-f]+$
IdPrefixes == {<<"i">>, <<"v", "p", "c">>, <<"s", "u", "b", "n", "e", "t">>, <<"s", "g">>, <<"v", "o", "l">>, <<"s", "n", "a", "p">>, <<"a", "m", "i">>, <<"r", "t", "b">>, <<"i", "g", "w">>, <<"n", "a", "t">>, <<"e", "n", "i">>, <<"a", "c", "l">>}

MatchesId(s) ==
    \E pre \in IdPrefixes :
      /\ StartsWith(s, pre \o <<"-">>)
      /\ Len(s) > Len(pre) + 1
      /\ \A i \in (Len(pre) + 2)..Len(s) : IsHex(s[i])

\* _ARN_PATTERN: ^arn:
MatchesArn(s) == StartsWith(s, <<"a", "r", "n", ":">>)

\* _IP_PATTERN: ^\d{1,3}\.\d{1,3}\.\d{1,3}\.\d{1,3}$
MatchesIp(s) ==
    LET groups == Split(s, ".")
    IN /\ Len(groups) = 4
       /\ \A i \in 1..4 : /\ Len(groups[i]) \in 1..3
                          /\ \A k \in 1..Len(groups[i]) : IsDigit(groups[i][k])

\* _DATE_PATTERN: ^\d{4}-\d{2}-\d{2}
MatchesDate(s) ==
    /\ Len(s) >= 10
    /\ \A i \in {1, 2, 3, 4, 6, 7, 9, 10} : IsDigit(s[i])
    /\ s[5] = "-" /\ s[8] = "-"

\* f"[{style}]{text}[/{style}]" with the style given as a string of the model
StyleChars(style) ==
    CASE style = "green"    -> <<"g", "r", "e", "e", "n">>
      [] style = "yellow"   -> <<"y", "e", "l", "l", "o", "w">>
      [] style = "red"      -> <<"r", "e", "d">>
      [] style = "dim"      -> <<"d", "i", "m">>
      [] style = "cyan"     -> <<"c", "y", "a", "n">>
      [] style = "dim cyan" -> <<"d", "i", "m", " ", "c", "y", "a", "n">>
      [] style = "blue"     -> <<"b", "l", "u", "e">>

Markup(style, text) ==
    <<"[">> \o StyleChars(style) \o <<"]">> \o text \o <<"[", "/">> \o StyleChars(style) \o <<"]">>

Ellipsis == <<".", ".", ".">>

\* s[:cap] + "..." if len(s) > cap else s
Truncate(s, cap) == IF Len(s) > cap THEN SubSeq(s, 1, cap) \o Ellipsis ELSE s

\* _highlight_cell(value)
HighlightCell(value) ==
    IF value.t = "none" THEN <<>>
    ELSE IF IsDateLike(value) THEN Markup("dim", IsoFormat(value))
    ELSE IF value.t = "bool"
    THEN Markup(IF value.v THEN "green" ELSE "red", StrOf(value))
    ELSE IF IsComplex(value) THEN Markup("dim", Truncate(StrOf(value), 60))
    ELSE LET s == Truncate(StrOf(value), 80)
             color == StatusColor(Lower(s))
         IN IF color # "none" THEN Markup(color, s)
            ELSE IF MatchesId(s) THEN Markup("cyan", s)
            ELSE IF MatchesArn(s) THEN Markup("dim cyan", s)
            ELSE IF MatchesIp(s) THEN Markup("blue", s)
            ELSE IF MatchesDate(s) THEN Markup("dim", s)
            ELSE s

\* _guess_column_style(header_lower): the first keyword of _COLUMN_STYLES
\* contained in the header
GuessColumnStyle(header_lower) ==
    IF Contains(header_lower, <<"i", "d">>) THEN "cyan"
    ELSE IF Contains(header_lower, <<"n", "a", "m", "e">>) THEN "green"
    ELSE IF Contains(header_lower, <<"t", "y", "p", "e">>) THEN "yellow"
    ELSE IF Contains(header_lower, <<"s", "t", "a", "t", "u", "s">>) THEN "bold"
    ELSE IF Contains(header_lower, <<"s", "t", "a", "t", "e">>) THEN "bold"
    ELSE "white"

(***************************************************************************)
(* Records and arguments of the model                                      *)
(***************************************************************************)

K_Name  == <<"N", "a", "m", "e">>
K_State == <<"S", "t", "a", "t", "e">>
K_Env   == <<"E", "n", "v">>
K_Id    == <<"I", "d">>
K_StateName == <<"S", "t", "a", "t", "e", ".", "N", "a", "m", "e">>
K_TagsName == <<"T", "a", "g", "s", ".", "N", "a", "m", "e">>

S_web1 == <<"w", "e", "b", "-", "1">>
S_Web2 == <<"W", "e", "b", "-", "2">>
S_db1  == <<"d", "b", "-", "1">>
S_WEB1 == <<"W", "E", "B", "-", "1">>
S_webStar == <<"w", "e", "b", "*">>
S_star1   == <<"*", "1">>
S_starEbStar == <<"*", "e", "b", "*">>

Tag(k, v) == PyDict(<<<<K_Key, PyStr(k)>>, <<K_Value, PyStr(v)>>>>)

R_web1   == PyDict(<<<<K_Name, PyStr(S_web1)>>>>)
R_Web2   == PyDict(<<<<K_Name, PyStr(S_Web2)>>, <<K_State, PyDict(<<<<K_Name, PyStr(S_db1)>>>>)>>>>)
R_db1    == PyDict(<<<<K_Id, PyInt(1)>>, <<K_Name, PyStr(S_db1)>>>>)
R_tagged == PyDict(<<<<K_Id, PyInt(2)>>,
                     <<K_Tags, PyList(<<Tag(K_Env, S_db1), Tag(K_Name, S_web1)>>)>>>>)
R_noName == PyDict(<<<<K_Id, PyInt(10)>>>>)
R_null   == PyDict(<<<<K_Name, PyNone>>, <<K_Tags, PyList(<<Tag(K_Env, S_web1)>>)>>>>)
R_scalar == PyStr(S_web1)

\* the records a collection is built from
Records == {R_web1, R_Web2, R_db1, R_tagged, R_noName, R_null, R_scalar}

\* keys and values of the keyword pairs passed to filter
FilterKeys == {K_Name, K_StateName, K_Env, K_State}
FilterValues == {PyStr(S_webStar), PyStr(S_star1), PyStr(S_starEbStar),
                 PyStr(S_web1), PyStr(S_WEB1), PyStr(Star)}

\* bounds
MaxLen == 2
MaxTables == 3

\* sequences of length at most n over the set S
SeqsUpTo(S, n) == UNION {[1..k -> S] : k \in 0..n}

\* keyword arguments: no pair, one pair, or two pairs with distinct keys
KwPairs == FilterKeys \X FilterValues
Kwargs ==
    {<<>>} \cup {<<a>> : a \in KwPairs}
           \cup {kw \in {<<a, b>> : a \in KwPairs, b \in KwPairs} : kw[1][1] # kw[2][1]}

\* the columns / title a command handler gives the collection it creates
Cols0 == <<<<K_Id, <<"I", "D">>>>, <<K_TagsName, K_Name>>>>
Title0 == <<"E", "C", "2">>
Metas == {[columns |-> PyNone, title |-> PyNone],
          [columns |-> PyList(Cols0), title |-> PyStr(Title0)]}

(***************************************************************************)
(* SpecShell: the command registry and the REPL loop                       *)
(***************************************************************************)

\* command names as typed or registered (character sequences)
N_ec2  == <<"e", "c", "2">>
N_EC2  == <<"E", "C", "2">>
N_py   == <<"p", "y">>
N_Py   == <<"P", "y">>
N_s3   == <<"s", "3">>

\* first tokens of the lines typed at the prompt
Typed == {N_ec2, N_EC2, N_py, N_Py, N_s3}

\* register(name, handler) calls: py is the Python REPL; the other names are
\* registered, and re-registered, with either of two handlers
RegCalls == {<<N_py, "cmd_python">>} \cup ({N_ec2, N_EC2} \X {"handle_ec2", "cmd_exit"})

\* What a call of the handler can do: return, or raise.  "Exception" stands
\* for any subclass of Exception other than EOFError; KeyboardInterrupt and
\* SystemExit derive from BaseException only.
Outcomes(h) ==
    CASE h = "cmd_exit"   -> {"EOFError", "KeyboardInterrupt"}
      [] h = "cmd_python" -> {"return", "KeyboardInterrupt", "SystemExit"}
      [] h = "handle_ec2" -> {"return", "Exception", "EOFError", "KeyboardInterrupt"}

\* bounds
MaxRegs == 2
MaxSteps == 3

NoCall == [kind |-> "none"]

VARIABLES
    commands,       \* CommandRegistry._commands : name -> handler
    regLog,         \* the register() calls made so far, in order
    startInPython,  \* AWSShell.run(start_in_python)
    pc,             \* "init" | "start" | "prompt" | "done" | "crashed"
    escaped,        \* exception that left AWSShell.run, or "none"
    steps,          \* loop iterations done
    caught,         \* error lines printed by dispatch for caught exceptions
    last,           \* what the last step of run() did
    heap,           \* the list objects: heap[id] is the list's current content
    tables,         \* the ResourceTable objects created so far
    hist,           \* for each table, the call that created it
    err,            \* exception raised by the last ResourceTable call, or "none"
    out,            \* what the last render() / json() call printed
    conversation,   \* ai_cmd._conversation: 0 is None, else the object's id
    initLock,       \* ai_cmd._init_lock: the thread holding it, or "free"
    aiPc,           \* position of each thread in ai_cmd
    built,          \* AIConversation objects constructed so far
    got,            \* what _get_conversation returned to each request so far
    buf,            \* text of the prompt buffer of the Python REPL
    entered,        \* what the last Enter keystroke did
    providerCalls,  \* state-changing EC2 API calls issued so far
    lastCmd,        \* the last ec2 subcommand run
    messages,       \* AIConversation.messages of the conversation singleton
    aiRun,          \* what the last ai command did
    config,         \* ShellConfig: profile, region, output_format
    session,        \* AWSSessionManager._session: the provider session
    clients,        \* AWSSessionManager._clients : key -> client
    accountId,      \* AWSSessionManager._account_id_cache
    created,        \* the clients created so far, in order
    sessLast,       \* what the last step on the session manager did
    sessPc,         \* position of each thread in the session manager
    sessLoc         \* the local variables of each thread in the session manager

shellVars == <<commands, regLog, startInPython, pc, escaped, steps, caught, last>>

tableVars == <<heap, tables, hist, err, out>>

aiVars == <<conversation, initLock, aiPc, built, got>>

replVars == <<buf, entered>>

ec2Vars == <<providerCalls, lastCmd>>

chatVars == <<messages, aiRun>>

sessVars == <<config, session, clients, accountId, created, sessLast, sessPc, sessLoc>>

nonShellVars == <<tableVars, aiVars, replVars, ec2Vars, chatVars, sessVars>>

nonTableVars == <<shellVars, aiVars, replVars, ec2Vars, chatVars, sessVars>>

nonAiVars == <<shellVars, tableVars, replVars, ec2Vars, chatVars, sessVars>>

nonReplVars == <<shellVars, tableVars, aiVars, ec2Vars, chatVars, sessVars>>

nonEc2Vars == <<shellVars, tableVars, aiVars, replVars, chatVars, sessVars>>

nonChatVars == <<shellVars, tableVars, aiVars, replVars, ec2Vars, sessVars>>

nonSessVars == <<shellVars, tableVars, aiVars, replVars, ec2Vars, chatVars>>

vars == <<commands, regLog, startInPython, pc, escaped, steps, caught, last,
          heap, tables, hist, err, out,
          conversation, initLock, aiPc, built, got,
          buf, entered, providerCalls, lastCmd, messages, aiRun,
          config, session, clients, accountId, created, sessLast, sessPc, sessLoc>>

\* nothing rendered yet
NoOut == [call |-> "none", renders |-> 0]

\* threads of the process that use ai_cmd: the pre-warm worker and the REPL
Threads == {"worker", "main"}

\* the assistant, the Python REPL and the ec2 handlers have not been used
AiIdle ==
    /\ conversation = 0 /\ initLock = "free"
    /\ aiPc = [t \in Threads |-> "idle"] /\ built = 0 /\ got = <<>>

ReplIdle == buf = <<>> /\ entered = [kind |-> "none"]

Ec2Idle == providerCalls = <<>> /\ lastCmd = [kind |-> "none"]

ChatIdle == messages = <<>> /\ aiRun = [kind |-> "none"]

S_default == <<"d", "e", "f", "a", "u", "l", "t">>
S_usEast2 == <<"u", "s", "-", "e", "a", "s", "t", "-", "2">>
S_table == <<"t", "a", "b", "l", "e">>
S_json == <<"j", "s", "o", "n">>
S_text == <<"t", "e", "x", "t">>

\* ShellConfig.__init__ without environment variables or a configuration file
DefaultConfig ==
    [profile |-> S_default, region |-> S_usEast2, output_format |-> S_table]

\* boto3.Session(profile_name, region_name): the n-th session object
NewSession(n, profile, region) == [id |-> n, profile |-> profile, region |-> region]

\* AWSSessionManager.__init__ has run: the session is built, nothing cached
SessIdle ==
    /\ config = DefaultConfig
    /\ session = NewSession(1, DefaultConfig.profile, DefaultConfig.region)
    /\ clients = <<>> /\ accountId = [kind |-> "none"] /\ created = <<>>
    /\ sessLast = [op |-> "none"]
    /\ sessPc = [t \in Threads |-> "idle"]
    /\ sessLoc = [t \in Threads |-> [op |-> "none"]]

\* no ResourceTable exists
TablesIdle ==
    /\ heap = <<>> /\ tables = <<>> /\ hist = <<>> /\ err = "none"
    /\ out = NoOut

\* dict.get-style presence test on the registry
Registered(cmds, name) == name \in DOMAIN cmds

\* CommandRegistry.register: self._commands[name] = {...}
RegisterEntry(cmds, name, handler) ==
    [n \in (DOMAIN cmds) \cup {name} |-> IF n = name THEN handler ELSE cmds[n]]

\* dispatch without the `except Exception` clause: every exception propagates
DispatchNoCatch(cmds, command, outcome) ==
    IF command \in DOMAIN cmds
    THEN [invoked |-> cmds[command],
          printed |-> "none",
          raised  |-> IF outcome = "return" THEN "none" ELSE outcome]
    ELSE [invoked |-> "none", printed |-> "unknown", raised |-> "none"]

\* dispatch without the membership test: an unknown name raises KeyError
DispatchKeyError(cmds, command, outcome) ==
    IF command \in DOMAIN cmds
    THEN [invoked |-> cmds[command],
          printed |-> IF outcome = "Exception" THEN "error" ELSE "none",
          raised  |-> IF outcome \in {"return", "Exception"} THEN "none" ELSE outcome]
    ELSE [invoked |-> "none", printed |-> "none", raised |-> "Exception"]

\* CommandRegistry.dispatch(command, args) where the handler, if invoked,
\* behaves as `outcome`.  Result: the handler invoked, what was printed and
\* what dispatch raised ("none" = returned normally).
Dispatch(cmds, command, outcome) ==
    IF command \in DOMAIN cmds
    THEN [invoked |-> cmds[command],
          printed |-> IF outcome = "Exception" THEN "error" ELSE "none",
          raised  |-> IF outcome \in {"return", "Exception"} THEN "none" ELSE outcome]
    ELSE [invoked |-> "none", printed |-> "unknown", raised |-> "none"]

\* the outcomes the invoked handler can have (a single dummy when none runs)
OutcomesFor(cmds, command) ==
    IF command \in DOMAIN cmds THEN Outcomes(cmds[command]) ELSE {"return"}

\* AWSShell.run: where control goes after an exception `raised` inside the
\* try block of the loop
AfterLoopBody(raised) ==
    CASE raised = "none" -> "prompt"
      [] raised = "KeyboardInterrupt" -> "prompt"
      [] raised = "EOFError" -> "done"
      [] OTHER -> "crashed"

ShellInit ==
    /\ commands = <<>>
    /\ regLog = <<>>
    /\ startInPython \in BOOLEAN
    /\ pc = "init"
    /\ escaped = "none"
    /\ steps = 0
    /\ caught = 0
    /\ last = NoCall
    /\ TablesIdle /\ AiIdle /\ ReplIdle /\ Ec2Idle /\ ChatIdle /\ SessIdle

\* registry.register(name, handler, help_text) during _register_all
Register(name, handler) ==
    /\ pc = "init"
    /\ Len(regLog) < MaxRegs
    /\ commands' = RegisterEntry(commands, name, handler)
    /\ regLog' = Append(regLog, [name |-> name, handler |-> handler])
    /\ UNCHANGED <<startInPython, pc, escaped, steps, caught, last>>
    /\ UNCHANGED nonShellVars

\* AWSShell.__init__ returns; run() is entered
Construct ==
    /\ pc = "init"
    /\ pc' = "start"
    /\ UNCHANGED <<commands, regLog, startInPython, escaped, steps, caught, last>>
    /\ UNCHANGED nonShellVars

\* run(): show_welcome, then the start_in_python dispatch, which is outside
\* the try block of the loop
RunStart ==
    /\ pc = "start"
    /\ IF startInPython
       THEN \E o \in OutcomesFor(commands, N_py) :
              LET d == Dispatch(commands, N_py, o) IN
              /\ last' = [kind |-> "dispatch", where |-> "startup", typed |-> N_py,
                          command |-> N_py, registered |-> Registered(commands, N_py),
                          outcome |-> o, invoked |-> d.invoked,
                          printed |-> d.printed, raised |-> d.raised]
              /\ pc' = IF d.raised = "none" THEN "prompt" ELSE "crashed"
              /\ escaped' = d.raised
              /\ caught' = IF d.printed = "error" THEN caught + 1 ELSE caught
       ELSE /\ last' = NoCall
            /\ pc' = "prompt"
            /\ escaped' = "none"
            /\ caught' = caught
    /\ UNCHANGED <<commands, regLog, startInPython, steps>>
    /\ UNCHANGED nonShellVars

\* the prompt raises KeyboardInterrupt (Ctrl-C): continue
PromptInterrupt ==
    /\ pc = "prompt" /\ steps < MaxSteps
    /\ steps' = steps + 1
    /\ last' = [kind |-> "prompt", raised |-> "KeyboardInterrupt"]
    /\ pc' = AfterLoopBody("KeyboardInterrupt")
    /\ UNCHANGED <<commands, regLog, startInPython, escaped, caught>>
    /\ UNCHANGED nonShellVars

\* the prompt raises EOFError (Ctrl-D): break
PromptEOF ==
    /\ pc = "prompt" /\ steps < MaxSteps
    /\ steps' = steps + 1
    /\ last' = [kind |-> "prompt", raised |-> "EOFError"]
    /\ pc' = AfterLoopBody("EOFError")
    /\ UNCHANGED <<commands, regLog, startInPython, escaped, caught>>
    /\ UNCHANGED nonShellVars

\* the line is empty after strip(): continue
PromptEmpty ==
    /\ pc = "prompt" /\ steps < MaxSteps
    /\ steps' = steps + 1
    /\ last' = [kind |-> "empty"]
    /\ pc' = "prompt"
    /\ UNCHANGED <<commands, regLog, startInPython, escaped, caught>>
    /\ UNCHANGED nonShellVars

\* _execute: shlex.split raises ValueError: parse error printed, return
PromptParseError ==
    /\ pc = "prompt" /\ steps < MaxSteps
    /\ steps' = steps + 1
    /\ last' = [kind |-> "parse_error", printed |-> "parse_error", invoked |-> "none"]
    /\ pc' = "prompt"
    /\ UNCHANGED <<commands, regLog, startInPython, escaped, caught>>
    /\ UNCHANGED nonShellVars

\* _execute: parts[0].lower() is dispatched with the remaining tokens
PromptDispatch(typed) ==
    /\ pc = "prompt" /\ steps < MaxSteps
    /\ steps' = steps + 1
    /\ LET command == Lower(typed) IN
       \E o \in OutcomesFor(commands, command) :
         LET d == Dispatch(commands, command, o) IN
         /\ last' = [kind |-> "dispatch", where |-> "loop", typed |-> typed,
                     command |-> command, registered |-> Registered(commands, command),
                     outcome |-> o, invoked |-> d.invoked,
                     printed |-> d.printed, raised |-> d.raised]
         /\ pc' = AfterLoopBody(d.raised)
         /\ escaped' = IF AfterLoopBody(d.raised) = "crashed" THEN d.raised ELSE "none"
         /\ caught' = IF d.printed = "error" THEN caught + 1 ELSE caught
    /\ UNCHANGED <<commands, regLog, startInPython>>
    /\ UNCHANGED nonShellVars

ShellNext ==
    \/ \E c \in RegCalls : Register(c[1], c[2])
    \/ Construct
    \/ RunStart
    \/ PromptInterrupt
    \/ PromptEOF
    \/ PromptEmpty
    \/ PromptParseError
    \/ \E t \in Typed : PromptDispatch(t)

SpecShell == ShellInit /\ [][ShellNext]_vars

(***************************************************************************)
(* Claims on the dispatcher and the REPL loop                              *)
(***************************************************************************)

\* a step of run() in which dispatch was called
DispatchStep == (pc = "start" \/ steps' = steps + 1) /\ last'.kind = "dispatch"

\* what the claims require of a dispatch whose handler raised `outcome`:
\* an error line, a normal return to the loop, nothing escaping run()
Isolated ==
    /\ last'.printed = "error"
    /\ last'.raised = "none"
    /\ caught' = caught + 1
    /\ pc' = "prompt"
    /\ escaped' = "none"

C2_ControlFlowSignals ==
    [][/\ (DispatchStep /\ last'.registered
              /\ last'.outcome \in {"KeyboardInterrupt", "EOFError"}
            => last'.raised = last'.outcome)
       /\ ((DispatchStep \/ (steps' = steps + 1 /\ last'.kind = "prompt"))
            => /\ (last'.raised = "EOFError" => pc' = "done" /\ escaped' = "none")
               /\ (last'.raised = "KeyboardInterrupt" => pc' = "prompt" /\ escaped' = "none"))]_vars

ShellIdle ==
    /\ commands = <<>> /\ regLog = <<>> /\ startInPython = FALSE /\ pc = "init"
    /\ escaped = "none" /\ steps = 0 /\ caught = 0 /\ last = NoCall
    /\ AiIdle /\ ReplIdle /\ Ec2Idle /\ ChatIdle /\ SessIdle

\* ResourceTable(data, columns, title) built by a command handler
TableInit ==
    /\ ShellIdle
    /\ \E data \in SeqsUpTo(Records, MaxLen) :
         /\ heap = <<data>>
         /\ tables = <<[data |-> 1, columns |-> PyList(Cols0), title |-> PyStr(Title0)]>>
    /\ hist = <<[op |-> "new", src |-> 0]>>
    /\ err = "none"
    /\ out = NoOut

\* the content of table i
DataOf(i) == heap[tables[i].data]

\* ResourceTable(content, columns, title) on a list object of its own
NewTable(h, content, columns, title) ==
    [heap |-> Append(h, content),
     table |-> [data |-> Len(h) + 1, columns |-> columns, title |-> title]]

\* ResourceTable(self._data, columns, title): the list object of tbl is shared
SharedTable(h, tbl, columns, title) ==
    [heap |-> h, table |-> [data |-> tbl.data, columns |-> columns, title |-> title]]

\* tbl.filter(**kwargs); with no pair `filtered` is self._data itself
FilterCall(h, tbl, kwargs) ==
    IF kwargs = <<>>
    THEN SharedTable(h, tbl, tbl.columns, tbl.title)
    ELSE NewTable(h, FilterKw(h[tbl.data], kwargs), tbl.columns, tbl.title)

\* tbl.filter(fn)
FilterFnCall(h, tbl, fn) == NewTable(h, FilterFn(h[tbl.data], fn), tbl.columns, tbl.title)

\* sort implemented with self._data.sort(...): the source list is reordered
SortCallInPlace(h, tbl, key, reverse) ==
    [heap |-> [h EXCEPT ![tbl.data] = Sorted(h[tbl.data], key, reverse)],
     table |-> [data |-> tbl.data, columns |-> tbl.columns, title |-> tbl.title]]

\* tbl.sort(key, reverse)
SortCall(h, tbl, key, reverse) ==
    NewTable(h, Sorted(h[tbl.data], key, reverse), tbl.columns, tbl.title)

\* tbl.find(keyword)
FindCall(h, tbl, keyword) ==
    NewTable(h, Find(h[tbl.data], keyword), tbl.columns, PyStr(SearchTitle(keyword)))

\* select keeping, in every record, only the fields named by the keys
SelectCallProject(h, tbl, keys) ==
    LET fields == {ColSpec(keys[i])[1] : i \in 1..Len(keys)}
        Project(r) == IF IsDict(r)
                      THEN PyDict(SelectSeq(r.v, LAMBDA kv : kv[1] \in fields))
                      ELSE r
    IN NewTable(h, [i \in 1..Len(h[tbl.data]) |-> Project(h[tbl.data][i])],
                PyList(ColSpecs(keys)), tbl.title)

\* tbl.select(*keys)
SelectCall(h, tbl, keys) == SharedTable(h, tbl, PyList(ColSpecs(keys)), tbl.title)

\* a slice built as ResourceTable(self._data[idx]): columns and title lost
SliceCallDropMeta(h, tbl, start, stop) ==
    NewTable(h, Slice(h[tbl.data], start, stop), PyNone, PyNone)

\* tbl[start:stop]
SliceCall(h, tbl, start, stop) ==
    NewTable(h, Slice(h[tbl.data], start, stop), tbl.columns, tbl.title)

\* the call on table t returned r = [heap, table]; it is recorded as `call`
Bind(t, r, call) ==
    /\ t \in 1..Len(tables) /\ Len(tables) < MaxTables
    /\ heap' = r.heap
    /\ tables' = Append(tables, r.table)
    /\ hist' = Append(hist, call)
    /\ err' = "none"
    /\ UNCHANGED out
    /\ UNCHANGED nonTableVars

\* tables[t].filter(**kwargs)
Filter(t, kwargs) ==
    Bind(t, FilterCall(heap, tables[t], kwargs), [op |-> "filter", src |-> t, kwargs |-> kwargs])

\* tables[t].filter(fn); an exception of fn leaves filter
FilterByFn(t, fn) ==
    IF \E i \in 1..Len(DataOf(t)) : PredResult(fn, DataOf(t)[i]) = "raise"
    THEN /\ t \in 1..Len(tables) /\ Len(tables) < MaxTables
         /\ err' = "Exception"
         /\ UNCHANGED <<heap, tables, hist, out>>
         /\ UNCHANGED nonTableVars
    ELSE Bind(t, FilterFnCall(heap, tables[t], fn), [op |-> "filter_fn", src |-> t, fn |-> fn])

\* tables[t].sort(key, reverse)
Sort(t, key, reverse) ==
    Bind(t, SortCall(heap, tables[t], key, reverse),
         [op |-> "sort", src |-> t, key |-> key, reverse |-> reverse])

\* tables[t].find(keyword)
FindRows(t, keyword) ==
    Bind(t, FindCall(heap, tables[t], keyword), [op |-> "find", src |-> t, keyword |-> keyword])

\* tables[t].select(*keys)
Select(t, keys) ==
    Bind(t, SelectCall(heap, tables[t], keys), [op |-> "select", src |-> t, keys |-> keys])

\* tables[t][start:stop]
GetSlice(t, start, stop) ==
    Bind(t, SliceCall(heap, tables[t], start, stop),
         [op |-> "slice", src |-> t, start |-> start, stop |-> stop])

\* the same filter applied to the result of the first filter call
FilterAgain ==
    /\ Len(tables) = 2
    /\ \/ /\ hist[2].op = "filter" /\ Len(hist[2].kwargs) = 1
          /\ Filter(2, hist[2].kwargs)
       \/ /\ hist[2].op = "filter_fn"
          /\ FilterByFn(2, hist[2].fn)

\* a filter call on the collection of the handler, then the same call on its
\* result
FilterNext ==
    \/ \E kw \in Kwargs : Len(tables) = 1 /\ Filter(1, kw)
    \/ \E fn \in Preds : Len(tables) = 1 /\ FilterByFn(1, fn)
    \/ FilterAgain

SpecFilter == TableInit /\ [][FilterNext]_vars

\* records and arguments of the calls in a chain
ChainRecords == {R_Web2, R_db1, R_tagged, R_scalar}
ChainKwargs ==
    {<<>>,
     <<<<K_Name, PyStr(S_webStar)>>>>,
     <<<<K_Env, PyStr(S_star1)>>>>}
SortArgs == {<<K_Name, FALSE>>, <<K_Id, TRUE>>}
FindKeywords == {<<"W", "E", "B">>}
SelectKeys == {<<K_Name>>,
               <<<<"I", "d", ":", "I", "D">>,
                 <<"T", "a", "g", "s", ".", "N", "a", "m", "e", ":", " ", "N", "a", "m", "e">>>>}
SliceArgs == {<<PyNone, PyInt(1)>>, <<PyInt(-1), PyNone>>}

\* ResourceTable(data, columns, title) built by a command handler
ChainInit ==
    /\ ShellIdle
    /\ \E data \in SeqsUpTo(ChainRecords, MaxLen), m \in Metas :
         /\ heap = <<data>>
         /\ tables = <<[data |-> 1, columns |-> m.columns, title |-> m.title]>>
    /\ hist = <<[op |-> "new", src |-> 0]>>
    /\ err = "none"
    /\ out = NoOut

\* any chainable call on any table created so far
TableNext ==
    \E t \in 1..Len(tables) :
      \/ \E kw \in ChainKwargs : Filter(t, kw)
      \/ \E fn \in Preds : FilterByFn(t, fn)
      \/ \E a \in SortArgs : Sort(t, a[1], a[2])
      \/ \E keyword \in FindKeywords : FindRows(t, keyword)
      \/ \E keys \in SelectKeys : Select(t, keys)
      \/ \E sl \in SliceArgs : GetSlice(t, sl[1], sl[2])

SpecTable == ChainInit /\ [][TableNext]_vars

(***************************************************************************)
(* Claims on ResourceTable.filter                                          *)
(***************************************************************************)

\* the tables returned by a keyword filter call with n key=value pairs
FilterResults(n) ==
    {j \in 1..Len(tables) : hist[j].op = "filter" /\ Len(hist[j].kwargs) = n}

Range(seq) == {seq[i] : i \in 1..Len(seq)}

\* the wildcard rule as the documentation of filter states it, for a filter
\* value `pattern` and the string form `text` of a field value
WildMatch(pattern, text) ==
    LET p == Lower(pattern)
        x == Lower(text)
        leading == p # <<>> /\ p[1] = "*"
        trailing == p # <<>> /\ p[Len(p)] = "*"
        stripped == RStrip(LStrip(p, "*"), "*")
    IN CASE leading /\ trailing -> Contains(x, stripped)
         [] leading /\ ~trailing -> EndsWith(x, stripped)
         [] trailing /\ ~leading -> StartsWith(x, stripped)
         [] OTHER -> x = p

\* the record has a top-level field `key` holding a scalar
HasScalarField(r, key) ==
    /\ IsDict(r)
    /\ \E i \in 1..Len(r.v) : r.v[i][1] = key /\ r.v[i][2].t \in {"str", "int", "bool"}

\* string form of the top-level field `key` of r
FieldText(r, key) ==
    LET x == r.v[CHOOSE i \in 1..Len(r.v) : r.v[i][1] = key][2]
    IN CASE x.t = "str" -> x.v
         [] x.t = "int" -> IntStr(x.v)
         [] x.t = "bool" -> IF x.v THEN <<"T", "r", "u", "e">> ELSE <<"F", "a", "l", "s", "e">>

HasTag(r, name, text) ==
    /\ IsDict(r)
    /\ \E i \in 1..Len(r.v) :
         /\ r.v[i][1] = K_Tags /\ r.v[i][2].t = "list"
         /\ \E k \in 1..Len(r.v[i][2].v) : r.v[i][2].v[k] = Tag(name, text)

\* the texts the model uses as tag values
TagTexts == {S_web1, S_db1}

\* C7: a record without a top-level field F whose Tags list has an entry
\* {Key: F, Value: V} is in the result of filter(F=value) whenever value is V
\* or a wildcard form that V satisfies.
C7_TagFallback ==
    \A j \in FilterResults(1) :
      LET key == hist[j].kwargs[1][1]
          value == hist[j].kwargs[1][2]
          src == DataOf(hist[j].src)
      IN \A i \in 1..Len(src), text \in TagTexts :
           (/\ IsDict(src[i])
            /\ \A k \in 1..Len(src[i].v) : src[i].v[k][1] # key
            /\ HasTag(src[i], key, text)
            /\ value.t = "str" /\ WildMatch(value.v, text))
           => src[i] \in Range(DataOf(j))

\* C7 witness: filter(Name="web-1") kept the record whose only Name is a tag.
C7_Witness ==
    \E j \in FilterResults(1) :
      /\ hist[j].kwargs = <<<<K_Name, PyStr(S_web1)>>>>
      /\ DataOf(hist[j].src) = <<R_noName, R_tagged>>
      /\ DataOf(j) = <<R_tagged>>

\* no lookup resolves `key` in r: not a key of r, not a dotted path into r,
\* and not the Key of one of its tags (with or without the "Tags." prefix)
Unresolvable(r, key) ==
    /\ IsDict(r)
    /\ \A i \in 1..Len(r.v) : r.v[i][1] # key
    /\ Traverse(r, Split(key, ".")).t = "none"
    /\ \A text \in TagTexts \cup {<<>>} :
         /\ ~HasTag(r, key, text)
         /\ StartsWith(key, TagsDot) => ~HasTag(r, SubSeq(key, 6, Len(key)), text)

\* C8: a record in which the field of a keyword pair cannot be resolved is
\* not in the result, whatever the filter value.
C8_UnresolvableDropped ==
    \A j \in FilterResults(1) :
      LET key == hist[j].kwargs[1][1]
          src == DataOf(hist[j].src)
      IN \A i \in 1..Len(src) :
           Unresolvable(src[i], key) => src[i] \notin Range(DataOf(j))

\* the record passes the pair when filtered alone
MatchesAlone(r, kv) == FilterKw(<<r>>, <<kv>>) # <<>>

\* C10: filter(a=x, b=y) returns the same records as filter(b=y, a=x) and as
\* filter(a=x).filter(b=y): those that match both pairs individually.
C10_KeywordAnd ==
    \A j \in FilterResults(2) :
      LET a == hist[j].kwargs[1]
          b == hist[j].kwargs[2]
          src == DataOf(hist[j].src)
      IN /\ DataOf(j) = FilterKw(src, <<b, a>>)
         /\ DataOf(j) = FilterKw(FilterKw(src, <<a>>), <<b>>)
         /\ DataOf(j) = SelectSeq(src, LAMBDA r : MatchesAlone(r, a) /\ MatchesAlone(r, b))

\* C10 witness: of two records passing Name="web*", only one passes
\* State.Name="*1" as well.
C10_Witness ==
    \E j \in FilterResults(2) :
      /\ hist[j].kwargs = <<<<K_Name, PyStr(S_webStar)>>, <<K_StateName, PyStr(S_star1)>>>>
      /\ DataOf(hist[j].src) = <<R_web1, R_Web2>>
      /\ DataOf(j) = <<R_Web2>>

\* C5: every filter, sort, find, select and slice call returns a new
\* collection object, and every collection that existed before the call has
\* the same record sequence, columns and title after it.
C5_Immutability ==
    [][/\ Len(tables') \in {Len(tables), Len(tables) + 1}
       /\ \A i \in 1..Len(tables) :
            /\ tables'[i] = tables[i]
            /\ heap'[tables'[i].data] = heap[tables[i].data]]_vars

\* C5 witness: a sort returned the records in another order than its source
\* holds them, and a further call was made on the sorted collection.
C5_Witness ==
    \E j, k \in 1..Len(tables) :
      /\ hist[j].op = "sort" /\ DataOf(j) # DataOf(hist[j].src)
      /\ hist[k].op \in {"filter", "find", "select", "slice"} /\ hist[k].src = j

\* C9: filtering the result of a filter again with the same single keyword
\* pair, or the same predicate, returns the same records in the same order.
C9_FilterIdempotent ==
    \A j \in 1..Len(tables) :
      /\ (/\ hist[j].op = "filter" /\ Len(hist[j].kwargs) = 1
          /\ hist[hist[j].src].op = "filter"
          /\ hist[hist[j].src].kwargs = hist[j].kwargs
          => DataOf(j) = DataOf(hist[j].src))
      /\ (/\ hist[j].op = "filter_fn"
          /\ hist[hist[j].src].op = "filter_fn"
          /\ hist[hist[j].src].fn = hist[j].fn
          => DataOf(j) = DataOf(hist[j].src))

\* C9 witness: filter(Name="web*") dropped a record and kept one, and the
\* same filter was applied to its result.
C9_Witness ==
    \E j \in 1..Len(tables) :
      /\ hist[j].op = "filter" /\ hist[j].kwargs = <<<<K_Name, PyStr(S_webStar)>>>>
      /\ hist[hist[j].src].op = "filter" /\ hist[hist[j].src].kwargs = hist[j].kwargs
      /\ DataOf(hist[hist[j].src].src) = <<R_Web2, R_db1>>
      /\ DataOf(j) = <<R_Web2>>

(***************************************************************************)
(* SpecQuery: one call on the collection of a handler, then render / json  *)
(***************************************************************************)

K_Region == <<"R", "e", "g", "i", "o", "n">>
S_useast1 == <<"u", "s", "-", "e", "a", "s", "t", "-", "1">>

R_zero   == PyDict(<<<<K_Id, PyInt(0)>>>>)
R_region == PyDict(<<<<K_Region, PyStr(S_useast1)>>>>)
R_dotted == PyDict(<<<<K_StateName, PyStr(S_db1)>>>>)

\* the records a queried collection is built from
QueryRecords == {R_Web2, R_db1, R_tagged, R_noName, R_null, R_scalar, R_zero, R_region,
                 R_dotted}

\* arguments of the calls
QuerySortKeys == {K_Id, K_Name, K_TagsName}
QueryKeywords == {<<"e", "a", "s", "t">>, <<"e", "a", "s", "t", "-", "2">>,
                  <<"W", "E", "B">>, <<"[", "0", "]", ".", "k", "e", "y">>}
QueryKwargs == {<<<<K_Name, PyStr(S_webStar)>>>>, <<<<K_Region, PyStr(S_WEB1)>>>>,
                <<<<K_StateName, PyStr(S_db1)>>>>}

\* ResourceTable(data, columns, title) built by a command handler
QueryInit ==
    /\ ShellIdle
    /\ \E data \in SeqsUpTo(QueryRecords, MaxLen), m \in Metas :
         /\ heap = <<data>>
         /\ tables = <<[data |-> 1, columns |-> m.columns, title |-> m.title]>>
    /\ hist = <<[op |-> "new", src |-> 0]>>
    /\ err = "none"
    /\ out = NoOut

\* one filter, sort, find or select call on the collection of the handler
QueryNext ==
    /\ Len(tables) = 1
    /\ \/ \E kw \in QueryKwargs : Filter(1, kw)
       \/ \E key \in QuerySortKeys, reverse \in BOOLEAN : Sort(1, key, reverse)
       \/ \E keyword \in QueryKeywords : FindRows(1, keyword)
       \/ \E keys \in SelectKeys : Select(1, keys)

SpecQuery == QueryInit /\ [][QueryNext]_vars

(***************************************************************************)
(* Claims on sort, find and select                                         *)
(***************************************************************************)

\* the sort key of the documentation: the string form of the resolved field
\* value, the empty string when the field does not resolve
StringForm(r, key) ==
    LET x == GetValue(r, key) IN IF x.t = "none" THEN <<>> ELSE StrOf(x)

\* a <= b on str
StrLeq(a, b) == ~StrLess(b, a)

\* C11: sort(key, reverse) returns a permutation of the source, ordered by the
\* string form of the resolved field value (empty string when unresolvable),
\* ascending or, with reverse, descending; records with equal string forms
\* keep their source order.
C11_StableStringSort ==
    \A j \in 1..Len(tables) :
      hist[j].op = "sort" =>
        LET src == DataOf(hist[j].src)
            res == DataOf(j)
            k(r) == StringForm(r, hist[j].key)
        IN /\ Len(res) = Len(src)
           /\ \E p \in Permutations(1..Len(src)) :
                /\ \A i \in 1..Len(src) : res[i] = src[p[i]]
                /\ \A a, b \in 1..Len(src) :
                     a < b =>
                       /\ IF hist[j].reverse THEN StrLeq(k(res[b]), k(res[a]))
                                             ELSE StrLeq(k(res[a]), k(res[b]))
                       /\ (k(res[a]) = k(res[b]) => p[a] < p[b])

\* the (path, text) pairs of the leaves reached by walking x from `path`:
\* map keys are joined with dots, list positions are written [i]
RECURSIVE Leaves(_, _)
Leaves(x, path) ==
    CASE x.t = "dict" ->
           UNION {Leaves(x.v[i][2],
                         IF path = <<>> THEN x.v[i][1] ELSE path \o <<".">> \o x.v[i][1])
                  : i \in 1..Len(x.v)}
      [] x.t = "list" ->
           UNION {Leaves(x.v[i], path \o <<"[">> \o IntStr(i - 1) \o <<"]">>)
                  : i \in 1..Len(x.v)}
      [] OTHER -> {[path |-> path, text |-> StrOf(x)]}

\* the keyword occurs, ignoring case, somewhere in a path or a leaf text
Occurs(r, keyword) ==
    \E leaf \in Leaves(r, <<>>) :
      \/ Contains(Lower(leaf.path), Lower(keyword))
      \/ Contains(Lower(leaf.text), Lower(keyword))

\* C12: find(keyword) keeps exactly, and in order, the records in which the
\* keyword occurs case-insensitively as a substring of a flattened path or of
\* the string form of a leaf value.
C12_FindSubstring ==
    \A j \in 1..Len(tables) :
      hist[j].op = "find" =>
        DataOf(j) = SelectSeq(DataOf(hist[j].src), LAMBDA r : Occurs(r, hist[j].keyword))

\* C12 witness: find("east") kept {"Region": "us-east-1"} and dropped the
\* other record, and find("east-2") on a collection holding that record kept
\* nothing of it.
C12_Witness ==
    \E j \in 1..Len(tables) :
      /\ hist[j].op = "find" /\ hist[j].keyword = <<"e", "a", "s", "t">>
      /\ DataOf(hist[j].src) = <<R_db1, R_region>>
      /\ DataOf(j) = <<R_region>>
      /\ Find(DataOf(hist[j].src), <<"e", "a", "s", "t", "-", "2">>) = <<>>

\* C13: select(keys...) returns a collection holding the same records as its
\* source, in the same order and with every field, and the same title; its
\* column list is the list of (field, header) pairs the keys spell.
C13_SelectKeepsData ==
    \A j \in 1..Len(tables) :
      hist[j].op = "select" =>
        /\ DataOf(j) = DataOf(hist[j].src)
        /\ tables[j].title = tables[hist[j].src].title
        /\ tables[j].columns.t = "list"
        /\ Len(tables[j].columns.v) = Len(hist[j].keys)
        /\ hist[j].keys = <<K_Name>> => tables[j].columns.v = <<<<K_Name, K_Name>>>>
        /\ Len(hist[j].keys) = 2 =>
             tables[j].columns.v = <<<<K_Id, <<"I", "D">>>>, <<K_TagsName, K_Name>>>>

\* C13 witness: select("Name") on a collection with other columns, one of
\* whose records has the fields Id and Name; the result still holds Id.
C13_Witness ==
    \E j \in 1..Len(tables) :
      /\ hist[j].op = "select" /\ hist[j].keys = <<K_Name>>
      /\ tables[j].columns # tables[hist[j].src].columns
      /\ \E i \in 1..Len(DataOf(j)) : DataOf(j)[i] = R_db1
      /\ DataOf(j) = DataOf(hist[j].src)

(***************************************************************************)
(* utils/table.py: render and json                                         *)
(***************************************************************************)

K_ResponseMetadata ==
    <<"R", "e", "s", "p", "o", "n", "s", "e", "M", "e", "t", "a", "d", "a", "t", "a">>

\* ResourceTable.render, lines 277-304: the table drawn for the given data,
\* columns and title; "raise" when an exception leaves render
RenderTable(data, columns, title) ==
    IF Truthy(columns)
    THEN [kind |-> "table", title |-> title,
          headers |-> [c \in 1..Len(columns.v) |-> columns.v[c][2]],
          styles |-> [c \in 1..Len(columns.v) |->
                        IF Len(columns.v[c]) > 2 THEN columns.v[c][3]
                        ELSE GuessColumnStyle(Lower(columns.v[c][2]))],
          rows |-> [i \in 1..Len(data) |->
                      [c \in 1..Len(columns.v) |->
                         HighlightCell(GetValue(data[i], columns.v[c][1]))]],
          items |-> Len(data)]
    ELSE IF IsDict(data[1])
    THEN LET all == [k \in 1..Len(data[1].v) |-> data[1].v[k][1]]
             kept == SelectSeq(all, LAMBDA k : k # K_ResponseMetadata)
             keys == SubSeq(kept, 1, IF Len(kept) > 10 THEN 10 ELSE Len(kept))
         IN IF keys # <<>> /\ \E i \in 1..Len(data) : ~IsDict(data[i])
            THEN [kind |-> "raise"]
            ELSE [kind |-> "table", title |-> title,
                  headers |-> keys,
                  styles |-> [c \in 1..Len(keys) |-> GuessColumnStyle(Lower(keys[c]))],
                  rows |-> [i \in 1..Len(data) |->
                              [c \in 1..Len(keys) |-> HighlightCell(DictGet(data[i], keys[c]))]],
                  items |-> Len(data)]
    ELSE [kind |-> "table", title |-> title,
          headers |-> <<<<"V", "a", "l", "u", "e">>>>,
          styles |-> <<"cyan">>,
          rows |-> [i \in 1..Len(data) |-> <<StrOf(data[i])>>],
          items |-> Len(data)]

\* render without the test for an empty collection
RenderOutNoEmptyCheck(data, columns, title) ==
    IF data = <<>> /\ ~Truthy(columns) THEN [kind |-> "raise"]
    ELSE RenderTable(data, columns, title)

\* ResourceTable.render: what is printed
RenderOut(data, columns, title) ==
    IF data = <<>> THEN [kind |-> "no_results"]
    ELSE RenderTable(data, columns, title)

\* _DateTimeEncoder.default(obj); "raise" is the TypeError of super().default
EncoderDefault(x) == IF IsDateLike(x) THEN PyStr(IsoFormat(x)) ELSE [t |-> "raise"]

\* the hook the encoder calls for a value json does not know.  json.dumps
\* passes default= on to the constructor of cls, and JSONEncoder.__init__
\* stores a default that is not None as an attribute of the instance, where
\* it hides the method `default` of the class.
DefaultHook(x, default) ==
    IF default = "str" THEN PyStr(StrOf(x)) ELSE EncoderDefault(x)

\* json.dumps(x, cls=_DateTimeEncoder, default=default) as the value that
\* json.loads reads back from the text, or "raise"
RECURSIVE JsonEncode(_, _)
JsonEncode(x, default) ==
    CASE x.t \in {"none", "bool", "int", "str"} -> x
      [] x.t = "list" ->
           LET parts == [i \in 1..Len(x.v) |-> JsonEncode(x.v[i], default)]
           IN IF \E i \in 1..Len(parts) : parts[i].t = "raise" THEN [t |-> "raise"]
              ELSE PyList(parts)
      [] x.t = "dict" ->
           LET parts == [i \in 1..Len(x.v) |-> JsonEncode(x.v[i][2], default)]
           IN IF \E i \in 1..Len(parts) : parts[i].t = "raise" THEN [t |-> "raise"]
              ELSE PyDict([i \in 1..Len(x.v) |-> <<x.v[i][1], parts[i]>>])
      [] OTHER ->
           LET y == DefaultHook(x, default)
           IN IF y.t = "raise" THEN y ELSE JsonEncode(y, default)

\* json() with the encoder class alone, without default=str
JsonOutEncoderOnly(data) ==
    LET value == JsonEncode(PyList(data), "none")
    IN IF value.t = "raise" THEN [kind |-> "raise"] ELSE [kind |-> "json", value |-> value]

\* ResourceTable.json: what is printed
JsonOut(data) ==
    LET value == JsonEncode(PyList(data), "str")
    IN IF value.t = "raise" THEN [kind |-> "raise"] ELSE [kind |-> "json", value |-> value]

\* bound on the render() calls of a session
MaxRenders == 2

\* a call that only prints: the collections are left alone
Show(t, call, printed, renders) ==
    /\ t \in 1..Len(tables)
    /\ out' = [call |-> call, t |-> t, renders |-> renders, printed |-> printed]
    /\ err' = IF printed.kind = "raise" THEN "Exception" ELSE "none"
    /\ UNCHANGED <<heap, tables, hist>>
    /\ UNCHANGED nonTableVars

\* render writing the shortened text back into the records it displays
RenderInPlace(t) ==
    /\ t \in 1..Len(tables)
    /\ out.renders < MaxRenders
    /\ out' = [call |-> "render", t |-> t, renders |-> out.renders + 1,
               printed |-> RenderOut(DataOf(t), tables[t].columns, tables[t].title)]
    /\ err' = "none"
    /\ heap' = [heap EXCEPT ![tables[t].data] =
                  [i \in 1..Len(DataOf(t)) |->
                     IF IsDict(DataOf(t)[i])
                     THEN PyDict([k \in 1..Len(DataOf(t)[i].v) |->
                                    <<DataOf(t)[i].v[k][1],
                                      IF DataOf(t)[i].v[k][2].t = "str"
                                      THEN PyStr(Truncate(DataOf(t)[i].v[k][2].v, 80))
                                      ELSE DataOf(t)[i].v[k][2]>>])
                     ELSE DataOf(t)[i]]]
    /\ UNCHANGED <<tables, hist>>
    /\ UNCHANGED nonTableVars

\* tables[t].render()
Render(t) ==
    /\ t \in 1..Len(tables)
    /\ out.renders < MaxRenders
    /\ Show(t, "render", RenderOut(DataOf(t), tables[t].columns, tables[t].title),
            out.renders + 1)

\* tables[t].json()
Json(t) ==
    /\ t \in 1..Len(tables)
    /\ Show(t, "json", JsonOut(DataOf(t)), out.renders)

(***************************************************************************)
(* SpecOutput: a collection, possibly filtered, is rendered and printed    *)
(***************************************************************************)

K_LaunchTime == <<"L", "a", "u", "n", "c", "h", "T", "i", "m", "e">>
K_Created == <<"C", "r", "e", "a", "t", "e", "d">>
K_Blob == <<"B", "l", "o", "b">>

\* a string of n times the character c
Rep(c, n) == [i \in 1..n |-> c]

R_long == PyDict(<<<<K_Id, PyStr(Rep("a", 80))>>,
                   <<K_Name, PyStr(Rep("a", 81))>>,
                   <<K_State, PyDict(<<<<K_Name, PyStr(Rep("b", 60))>>>>)>>>>)
R_time == PyDict(<<<<K_LaunchTime, PyDateTime(2024, 1, 2, 3, 4, 5)>>,
                   <<K_Created, PyDate(2024, 1, 2)>>,
                   <<K_Tags, PyList(<<PyDateTime(2024, 11, 30, 23, 59, 58)>>)>>>>)
R_blob == PyDict(<<<<K_Id, PyStr(<<"i", "-", "0", "a", "1">>)>>,
                   <<K_State, PyStr(<<"r", "u", "n", "n", "i", "n", "g">>)>>,
                   <<K_Blob, PyObj(<<"b", "'", "x", "'">>)>>>>)

\* the records of the collections that are printed
OutputRecords == {R_db1, R_tagged, R_scalar, R_long, R_time, R_blob}

OutputInit ==
    /\ ShellIdle
    /\ \E data \in SeqsUpTo(OutputRecords, MaxLen), m \in Metas :
         /\ heap = <<data>>
         /\ tables = <<[data |-> 1, columns |-> m.columns, title |-> m.title]>>
    /\ hist = <<[op |-> "new", src |-> 0]>>
    /\ err = "none"
    /\ out = NoOut

\* at most one filter call, and render() and json() on any collection
OutputNext ==
    \/ \E kw \in QueryKwargs : Len(tables) = 1 /\ Filter(1, kw)
    \/ \E t \in 1..Len(tables) : Render(t)
    \/ \E t \in 1..Len(tables) : Json(t)

SpecOutput == OutputInit /\ [][OutputNext]_vars

(***************************************************************************)
(* Claims on json and render                                               *)
(***************************************************************************)

\* wherever x holds a date or a datetime, y holds the string x.isoformat()
RECURSIVE IsoAt(_, _)
IsoAt(x, y) ==
    CASE IsDateLike(x) -> y = PyStr(IsoFormat(x))
      [] x.t = "list" ->
           /\ y.t = "list" /\ Len(y.v) = Len(x.v)
           /\ \A i \in 1..Len(x.v) : IsoAt(x.v[i], y.v[i])
      [] x.t = "dict" ->
           /\ y.t = "dict" /\ Len(y.v) = Len(x.v)
           /\ \A i \in 1..Len(x.v) : y.v[i][1] = x.v[i][1] /\ IsoAt(x.v[i][2], y.v[i][2])
      [] OTHER -> TRUE

\* C14: json() prints every date and every datetime found anywhere in the
\* records as the string its isoformat() returns.
C14_DatesAsIso ==
    out.call = "json" =>
      /\ out.printed.kind = "json"
      /\ IsoAt(PyList(DataOf(out.t)), out.printed.value)

\* wherever x holds a value json knows, y holds it unchanged and at full
\* length; wherever x holds an object json does not know, y holds str(x)
RECURSIVE StrAt(_, _)
StrAt(x, y) ==
    CASE x.t = "obj" -> y = PyStr(x.v)
      [] x.t \in {"none", "bool", "int", "str"} -> y = x
      [] x.t = "list" ->
           /\ y.t = "list" /\ Len(y.v) = Len(x.v)
           /\ \A i \in 1..Len(x.v) : StrAt(x.v[i], y.v[i])
      [] x.t = "dict" ->
           /\ y.t = "dict" /\ Len(y.v) = Len(x.v)
           /\ \A i \in 1..Len(x.v) : y.v[i][1] = x.v[i][1] /\ StrAt(x.v[i][2], y.v[i][2])
      [] OTHER -> TRUE

\* the value occurs somewhere in x
RECURSIVE Holds(_, _)
Holds(x, value) ==
    \/ x = value
    \/ x.t = "list" /\ \E i \in 1..Len(x.v) : Holds(x.v[i], value)
    \/ x.t = "dict" /\ \E i \in 1..Len(x.v) : Holds(x.v[i][2], value)

\* C15: json() never raises; a value the serialiser does not know is printed
\* as str(value), every other value as it is.
C15_JsonFailsClosed ==
    out.call = "json" =>
      /\ err = "none"
      /\ out.printed.kind = "json"
      /\ StrAt(PyList(DataOf(out.t)), out.printed.value)

\* C15 witness: json() on a collection holding a bytes object and a date
\* printed the str() of the object.
C15_Witness ==
    /\ out.call = "json" /\ out.printed.kind = "json"
    /\ Holds(PyList(DataOf(out.t)), PyObj(<<"b", "'", "x", "'">>))
    /\ Holds(PyList(DataOf(out.t)), PyDate(2024, 1, 2))
    /\ Holds(out.printed.value, PyStr(<<"b", "'", "x", "'">>))

\* C16: render() on a collection without records prints the "No results"
\* line, draws no table and does not raise, whatever the columns and title
\* and however the collection was made.
C16_EmptyRender ==
    (out.call = "render" /\ DataOf(out.t) = <<>>) =>
      /\ out.printed = [kind |-> "no_results"]
      /\ err = "none"

\* C16 witness: a filter that matched nothing on a non-empty collection with
\* columns and a title, and render() on its result.
C16_Witness ==
    /\ out.call = "render" /\ out.t = 2 /\ hist[2].op = "filter"
    /\ DataOf(1) # <<>> /\ DataOf(2) = <<>>
    /\ Truthy(tables[2].columns)
    /\ out.printed.kind = "no_results"

\* the value render() shows in row i, column c of table t
CellValue(t, i, c) ==
    IF Truthy(tables[t].columns) THEN GetValue(DataOf(t)[i], tables[t].columns.v[c][1])
    ELSE IF IsDict(DataOf(t)[1]) THEN DictGet(DataOf(t)[i], out.printed.headers[c])
    ELSE DataOf(t)[i]

\* the collection is drawn as a plain list of values: it has no columns and
\* its first record is not a map
PlainList(t) == ~Truthy(tables[t].columns) /\ ~IsDict(DataOf(t)[1])

\* the full text of a value, and the text a cell may show for it: the full
\* text, or its first `cap` characters and an ellipsis when it is longer
FullText(v) ==
    CASE v.t = "none" -> <<>>
      [] IsDateLike(v) -> IsoFormat(v)
      [] OTHER -> StrOf(v)

ShownText(v) ==
    LET cap == IF IsComplex(v) THEN 60 ELSE 80
    IN IF Len(FullText(v)) > cap THEN SubSeq(FullText(v), 1, cap) \o <<".", ".", ".">>
       ELSE FullText(v)

MarkupStyles == {"green", "yellow", "red", "dim", "cyan", "dim cyan", "blue"}

\* the cells of the table drawn show the full text of the value, or the
\* shortened text when the value is longer than the cap; the rows of a plain
\* list are shown in full
CellsShortened ==
    (out.call = "render" /\ out.printed.kind = "table") =>
      \A i \in 1..Len(out.printed.rows) :
        \A c \in 1..Len(out.printed.rows[i]) :
          LET v == CellValue(out.t, i, c)
              cell == out.printed.rows[i][c]
              shown == IF PlainList(out.t) THEN StrOf(v) ELSE ShownText(v)
          IN \/ cell = shown
             \/ \E style \in MarkupStyles : cell = Markup(style, shown)

\* C17: render() shows values longer than 80 characters (60 for nested maps
\* and lists) cut to the cap plus an ellipsis, and this is display only: a
\* render() call changes no collection and no record, and json() prints
\* every value at full length, after any number of render() calls.
C17_TruncationDisplayOnly ==
    /\ [](CellsShortened)
    /\ [](out.call = "json" =>
            (out.printed.kind = "json" /\ StrAt(PyList(DataOf(out.t)), out.printed.value)))
    /\ [][out'.renders # out.renders => heap' = heap /\ tables' = tables]_vars

\* C17 witness: the second render() call showed an 81-character name cut to
\* 80 characters and an ellipsis, and the record still holds all of it.
C17_Witness ==
    /\ out.call = "render" /\ out.renders >= 2 /\ out.printed.kind = "table"
    /\ \E i \in 1..Len(out.printed.rows) :
         /\ DataOf(out.t)[i] = R_long
         /\ \E c \in 1..Len(out.printed.rows[i]) :
              out.printed.rows[i][c] = Rep("a", 80) \o <<".", ".", ".">>
    /\ Holds(JsonOut(DataOf(out.t)).value, PyStr(Rep("a", 81)))

(***************************************************************************)
(* SpecAI: the conversation singleton of commands/ai_cmd.py, initialised   *)
(* by the pre-warm thread of AWSShell.__init__ and by the ai command       *)
(***************************************************************************)

\* bound on the ai commands of a session
MaxRequests == 3

\* result recorded for an ai command that ended with an exception
Raised == -1

AiInit == ShellIdle /\ TablesIdle

\* where a thread goes when _init_conversation_background returns to it
AfterInit(t) == IF t = "worker" THEN "done" ELSE "ret"

\* AWSShell._init_ai_background: threading.Thread(target=_init).start()
Spawn ==
    /\ aiPc["worker"] = "idle"
    /\ aiPc' = [aiPc EXCEPT !["worker"] = "lock"]
    /\ UNCHANGED <<conversation, initLock, built, got>>
    /\ UNCHANGED nonAiVars

\* cmd_ai calls _get_conversation; the shell reads commands only after
\* __init__ has started the worker
Request ==
    /\ aiPc["main"] = "idle"
    /\ aiPc["worker"] # "idle"
    /\ Len(got) < MaxRequests
    /\ aiPc' = [aiPc EXCEPT !["main"] = "peek"]
    /\ UNCHANGED <<conversation, initLock, built, got>>
    /\ UNCHANGED nonAiVars

\* _get_conversation: `if _conversation is None`, read without the lock
Peek ==
    /\ aiPc["main"] = "peek"
    /\ aiPc' = [aiPc EXCEPT !["main"] = IF conversation = 0 THEN "lock" ELSE "ret"]
    /\ UNCHANGED <<conversation, initLock, built, got>>
    /\ UNCHANGED nonAiVars

\* _init_conversation_background: `with _init_lock:` is entered
Acquire(t) ==
    /\ aiPc[t] = "lock"
    /\ initLock = "free"
    /\ initLock' = t
    /\ aiPc' = [aiPc EXCEPT ![t] = "check"]
    /\ UNCHANGED <<conversation, built, got>>
    /\ UNCHANGED nonAiVars

\* initialisation without the test under the lock: it always builds
CheckAlwaysBuild(t) ==
    /\ aiPc[t] = "check"
    /\ aiPc' = [aiPc EXCEPT ![t] = "build"]
    /\ UNCHANGED <<conversation, initLock, built, got>>
    /\ UNCHANGED nonAiVars

\* _init_conversation_background: `if _conversation is not None: return`,
\* under the lock; the return releases the lock
Check(t) ==
    /\ aiPc[t] = "check"
    /\ IF conversation # 0
       THEN /\ initLock' = "free"
            /\ aiPc' = [aiPc EXCEPT ![t] = AfterInit(t)]
       ELSE /\ initLock' = initLock
            /\ aiPc' = [aiPc EXCEPT ![t] = "build"]
    /\ UNCHANGED <<conversation, built, got>>
    /\ UNCHANGED nonAiVars

\* initialisation that acquires the lock without `with`: an exception of
\* _build_system_prompt leaves the lock held
BuildKeepLock(t, ok) ==
    /\ aiPc[t] = "build"
    /\ IF ok
       THEN /\ conversation' = built + 1
            /\ built' = built + 1
            /\ initLock' = "free"
            /\ aiPc' = [aiPc EXCEPT ![t] = AfterInit(t)]
            /\ got' = got
       ELSE /\ UNCHANGED <<conversation, built, initLock>>
            /\ aiPc' = [aiPc EXCEPT ![t] = IF t = "worker" THEN "failed" ELSE "idle"]
            /\ got' = IF t = "main" THEN Append(got, Raised) ELSE got
    /\ UNCHANGED nonAiVars

\* _build_system_prompt returns and _conversation = AIConversation(...) is
\* assigned (ok), or _build_system_prompt raises (~ok); either way the lock
\* is released.  The worker swallows the exception and ends ("failed"); in
\* the main thread it ends the ai command.
Build(t, ok) ==
    /\ aiPc[t] = "build"
    /\ initLock' = "free"
    /\ IF ok
       THEN /\ conversation' = built + 1
            /\ built' = built + 1
            /\ aiPc' = [aiPc EXCEPT ![t] = AfterInit(t)]
            /\ got' = got
       ELSE /\ UNCHANGED <<conversation, built>>
            /\ aiPc' = [aiPc EXCEPT ![t] = IF t = "worker" THEN "failed" ELSE "idle"]
            /\ got' = IF t = "main" THEN Append(got, Raised) ELSE got
    /\ UNCHANGED nonAiVars

\* _get_conversation: `return _conversation`
Return ==
    /\ aiPc["main"] = "ret"
    /\ got' = Append(got, conversation)
    /\ aiPc' = [aiPc EXCEPT !["main"] = "idle"]
    /\ UNCHANGED <<conversation, initLock, built>>
    /\ UNCHANGED nonAiVars

AiNext ==
    \/ Spawn
    \/ Request
    \/ Peek
    \/ \E t \in Threads : Acquire(t)
    \/ \E t \in Threads : Check(t)
    \/ \E t \in Threads, ok \in BOOLEAN : Build(t, ok)
    \/ Return

SpecAI == AiInit /\ [][AiNext]_vars

\* C18: the conversation is constructed at most once; a thread that reaches
\* the check under the lock when the conversation exists leaves it as it is
\* and builds nothing; every request is answered with that one conversation.
C18_InitOnce ==
    /\ [](built <= 1)
    /\ [](\A i \in 1..Len(got) : got[i] # Raised => got[i] = conversation /\ got[i] # 0)
    /\ [][\A t \in Threads :
            (aiPc[t] = "check" /\ conversation # 0 /\ aiPc'[t] # aiPc[t])
            => /\ conversation' = conversation /\ built' = built
               /\ aiPc'[t] = AfterInit(t) /\ initLock' = "free"]_vars

\* C18 witness: the ai command saw no conversation, waited for the lock
\* while the worker built one, and now stands at the check under the lock
\* with the conversation in place.
C18_Witness ==
    /\ aiPc["main"] = "check" /\ initLock = "main"
    /\ aiPc["worker"] = "done"
    /\ conversation = 1 /\ built = 1

\* the threads are scheduled: a thread that can take its next step of the
\* initialisation does so, and a lock that stays free is acquired
SpecAILive ==
    /\ SpecAI
    /\ \A t \in Threads :
         /\ WF_vars(Acquire(t))
         /\ WF_vars(Check(t))
         /\ WF_vars(\E ok \in BOOLEAN : Build(t, ok))

\* the worker's initialisation raised and nobody has initialised since; the
\* shell is at its prompt with n ai commands behind it
FailedBefore(n) ==
    /\ aiPc["worker"] = "failed" /\ conversation = 0
    /\ aiPc["main"] = "idle" /\ Len(got) = n

\* C22 as stated: after the worker's initialisation has raised, the first
\* later ai command obtains a non-null conversation.
C22_RetryObtains ==
    \A n \in 0..MaxRequests :
      [](FailedBefore(n) => [](Len(got) > n => got[n + 1] # Raised /\ got[n + 1] # 0))

\* C22 amended: when the worker's initialisation raises, the main thread is
\* not touched, the lock is released and the conversation stays
\* uninitialised; the first later ai command runs the initialisation itself
\* and either obtains the conversation it built, or, when its own
\* initialisation raises as well, ends with that exception and leaves the
\* lock free and the conversation uninitialised; a thread waiting for the
\* lock gets it, and no ai command proceeds with a missing conversation.
C22_SwallowedThenRetried ==
    /\ [][(aiPc'["worker"] = "failed" /\ aiPc["worker"] # "failed")
          => /\ initLock' = "free" /\ conversation' = 0
             /\ got' = got /\ aiPc'["main"] = aiPc["main"]]_vars
    /\ \A n \in 0..MaxRequests :
         [](FailedBefore(n)
            => [](Len(got) > n
                  => \/ got[n + 1] = built /\ got[n + 1] = conversation /\ built = 1
                     \/ got[n + 1] = Raised))
    /\ [][(Len(got') > Len(got) /\ got'[Len(got')] = Raised)
          => initLock' = "free" /\ conversation' = conversation]_vars
    /\ [](\A i \in 1..Len(got) : got[i] # 0)
    /\ \A t \in Threads : (aiPc[t] = "lock") ~> (aiPc[t] = "check")

\* C22 witness: the worker's initialisation raised, and the ai command that
\* followed built the conversation itself and got it.
C22_Witness ==
    /\ aiPc["worker"] = "failed" /\ initLock = "free"
    /\ got = <<1>> /\ conversation = 1 /\ built = 1

(***************************************************************************)
(* SpecRepl: the Enter key binding of the Python REPL                      *)
(* (commands/python_cmd.py, cmd_python._handle_enter)                      *)
(***************************************************************************)

\* the characters str.strip() removes
Whitespace == {" ", "\t", "\n"}

\* str.strip() of a line read at a prompt
RECURSIVE StripLine(_)
StripLine(s) ==
    IF s # <<>> /\ Head(s) \in Whitespace THEN StripLine(Tail(s))
    ELSE IF s # <<>> /\ s[Len(s)] \in Whitespace THEN StripLine(SubSeq(s, 1, Len(s) - 1))
    ELSE s

\* not text.strip()
Blank(text) == \A i \in 1..Len(text) : text[i] \in Whitespace

\* text.split("\n")[-1]
LastLine(text) == LET lines == Split(text, "\n") IN lines[Len(lines)]

\* last_line and last_line[0] in (" ", "\t")
IndentedLast(text) == LastLine(text) # <<>> /\ LastLine(text)[1] \in {" ", "\t"}

\* what codeop.CommandCompiler gives for a text: a code object ("code"),
\* None ("incomplete"), or SyntaxError / OverflowError / ValueError
\* ("error").  Blank text compiles as `pass`; for any other text the answer
\* of the compiler is an input of the model.
CompileResults(text) ==
    IF Blank(text) THEN {"code"} ELSE {"code", "incomplete", "error"}

\* codeop.CommandCompiler on a text of names (x), parentheses, blanks and
\* newlines, scanned from character i on: depth counts the open
\* parentheses, after says that an expression has just ended, bol and indent
\* that the scan is in the leading blanks of a line outside parentheses.
\* The first character that cannot continue a program is the "error"; a
\* text that ends inside parentheses is "incomplete".
RECURSIVE CompileScan(_, _, _, _, _, _)
CompileScan(s, i, depth, after, bol, indent) ==
    IF i > Len(s) THEN (IF depth = 0 THEN "code" ELSE "incomplete")
    ELSE LET c == s[i] IN
         CASE c = "\n" ->
                IF depth = 0 THEN CompileScan(s, i + 1, 0, FALSE, TRUE, FALSE)
                ELSE CompileScan(s, i + 1, depth, after, bol, indent)
           [] c \in {" ", "\t"} ->
                CompileScan(s, i + 1, depth, after, bol, indent \/ (depth = 0 /\ bol))
           [] OTHER ->
                IF depth = 0 /\ bol /\ indent THEN "error"
                ELSE IF c = "(" THEN CompileScan(s, i + 1, depth + 1, FALSE, FALSE, FALSE)
                ELSE IF c = ")"
                THEN (IF depth = 0 THEN "error"
                      ELSE CompileScan(s, i + 1, depth - 1, TRUE, FALSE, FALSE))
                ELSE IF after /\ ~(i > 1 /\ s[i - 1] = c) THEN "error"
                ELSE CompileScan(s, i + 1, depth, TRUE, FALSE, FALSE)

Compile(text) == CompileScan(text, 1, 0, FALSE, TRUE, FALSE)

\* _handle_enter deciding by the compile attempt alone
HandleEnterCompileOnly(text, result) ==
    IF Blank(text) THEN "COMPLETE"
    ELSE IF result = "error" THEN "COMPLETE"
    ELSE IF result = "incomplete" THEN "INCOMPLETE"
    ELSE "COMPLETE"

\* _handle_enter: "COMPLETE" is buf.validate_and_handle(), "INCOMPLETE" is
\* buf.insert_text("\n"); `result` is what the compiler gives for the text
HandleEnter(text, result) ==
    IF Blank(text) THEN "COMPLETE"
    ELSE IF IndentedLast(text) THEN "INCOMPLETE"
    ELSE IF result = "error" THEN "COMPLETE"
    ELSE IF result = "incomplete" THEN "INCOMPLETE"
    ELSE "COMPLETE"

\* the keys typed into the buffer
Keys == {"x", " ", "\t"}

\* bound on the length of the buffer
MaxBuf == 4

ReplInit == ShellIdle /\ TablesIdle

\* a character is typed at the end of the buffer
TypeKey(c) ==
    /\ Len(buf) < MaxBuf
    /\ buf' = Append(buf, c)
    /\ UNCHANGED entered
    /\ UNCHANGED nonReplVars

\* the loop of cmd_python for a submitted text: blank text is skipped, an
\* exit word leaves the REPL, anything else is executed
ExitWords == {<<"e", "x", "i", "t">>, <<"e", "x", "i", "t", "(", ")">>,
              <<"q", "u", "i", "t">>, <<"q", "u", "i", "t", "(", ")">>}
LoopBody(text) ==
    IF StripLine(text) = <<>> THEN "continue"
    ELSE IF StripLine(text) \in ExitWords THEN "break"
    ELSE "exec"

\* Enter inserting the newline with buf.newline(copy_margin=True): the new
\* line starts with the leading blanks of the line before it
EnterKeyCopyMargin(result) ==
    /\ LET decision == HandleEnter(buf, result)
           lastLine == LastLine(buf)
           n == CHOOSE k \in 0..Len(lastLine) :
                  /\ \A i \in 1..k : lastLine[i] \in {" ", "\t"}
                  /\ (k = Len(lastLine) \/ lastLine[k + 1] \notin {" ", "\t"})
       IN
       /\ entered' = [kind |-> "enter", text |-> buf, attempt |-> result,
                      decision |-> decision,
                      loop |-> IF decision = "COMPLETE" THEN LoopBody(buf) ELSE "none"]
       /\ buf' = IF decision = "INCOMPLETE"
                 THEN Append(buf, "\n") \o SubSeq(lastLine, 1, n) ELSE <<>>
    /\ UNCHANGED nonReplVars

\* the Enter key on the buffer, the compiler giving `result` for its text:
\* the buffer gets a newline, or is submitted to the loop of cmd_python and
\* the next prompt starts with an empty buffer
EnterKey(result) ==
    /\ LET decision == HandleEnter(buf, result) IN
       /\ entered' = [kind |-> "enter", text |-> buf, attempt |-> result,
                      decision |-> decision,
                      loop |-> IF decision = "COMPLETE" THEN LoopBody(buf) ELSE "none"]
       /\ buf' = IF decision = "INCOMPLETE" THEN Append(buf, "\n") ELSE <<>>
    /\ UNCHANGED nonReplVars

\* Enter with any answer of the compiler
Enter(result) ==
    /\ Len(buf) < MaxBuf
    /\ result \in CompileResults(buf)
    /\ EnterKey(result)

ReplNext ==
    \/ \E c \in Keys : TypeKey(c)
    \/ \E result \in {"code", "incomplete", "error"} : Enter(result)

SpecRepl == ReplInit /\ [][ReplNext]_vars

\* C19 as stated: the decision of every Enter keystroke is determined by the
\* compile attempt on the text alone: INCOMPLETE when the compiler asks for
\* more input, COMPLETE when it raises a syntax error or returns code.
C19_CompileAlone ==
    entered.kind = "enter" =>
      entered.decision = (IF entered.attempt = "incomplete" THEN "INCOMPLETE" ELSE "COMPLETE")

\* C19 amended: a blank buffer is COMPLETE; a buffer whose last line starts
\* with a space or a tab is INCOMPLETE whatever the compiler says of it; for
\* every other buffer the decision follows the compile attempt.
C19_IndentThenCompile ==
    entered.kind = "enter" =>
      entered.decision =
        (CASE Blank(entered.text) -> "COMPLETE"
           [] ~Blank(entered.text) /\ IndentedLast(entered.text) -> "INCOMPLETE"
           [] OTHER -> IF entered.attempt = "incomplete" THEN "INCOMPLETE" ELSE "COMPLETE")

\* C19 witness: Enter on an indented line kept the buffer open although the
\* text is a syntax error (an unexpected indent).
C19_Witness ==
    /\ entered.kind = "enter" /\ entered.decision = "INCOMPLETE"
    /\ entered.attempt = "error"
    /\ entered.text = <<" ", "x">>
    /\ buf = Append(entered.text, "\n")

(***************************************************************************)
(* SpecEc2: the ec2 command (commands/ec2.py, commands/base.py)            *)
(***************************************************************************)

S_startInstance == <<"s", "t", "a", "r", "t", "-", "i", "n", "s", "t", "a", "n", "c", "e">>
S_StartInstance == <<"S", "t", "a", "r", "t", "-", "I", "n", "s", "t", "a", "n", "c", "e">>
S_stopInstance == <<"s", "t", "o", "p", "-", "i", "n", "s", "t", "a", "n", "c", "e">>
S_listInstances == <<"l", "i", "s", "t", "-", "i", "n", "s", "t", "a", "n", "c", "e", "s">>
S_describeInstance == <<"d", "e", "s", "c", "r", "i", "b", "e", "-", "i", "n", "s", "t", "a", "n", "c", "e">>
S_getConfig == <<"g", "e", "t", "-", "c", "o", "n", "f", "i", "g">>
S_reboot == <<"r", "e", "b", "o", "o", "t">>
S_i1 == <<"i", "-", "1">>
S_i2 == <<"i", "-", "2">>
S_yes == <<"y", "e", "s">>

\* the tokens typed after `ec2`
Ec2Args == {<<>>, <<S_startInstance>>, <<S_startInstance, S_i1>>, <<S_StartInstance, S_i2>>,
            <<S_stopInstance>>, <<S_stopInstance, S_i2>>, <<S_stopInstance, S_i1, S_i2>>,
            <<S_listInstances>>, <<S_describeInstance, S_i1>>, <<S_reboot>>}

\* what console.input does at the confirmation prompt: it returns the line
\* typed, or raises
Line(text) == [kind |-> "line", v |-> text]
Raises(exc) == [kind |-> "raise", v |-> <<exc>>]
Answers == {Line(S_yes), Line(<<"Y", "E", "S">>), Line(<<"Y", "e", "s">>), Line(<<"y">>),
            Line(<<"n", "o">>), Line(<<>>), Line(<<" ", "y", "e", "s">>),
            Raises("EOFError"), Raises("KeyboardInterrupt")}

\* bound on the provider calls of a session
MaxCalls == 2

\* the handler result when nothing is asked and nothing is called
NoEffect(printed) == [prompted |-> FALSE, call |-> <<>>, printed |-> printed, raised |-> "none"]

\* start_instance / stop_instance going ahead unless the answer is "no"
ConfirmedCallUnlessNo(op, args, answer) ==
    IF args = <<>> THEN NoEffect("usage")
    ELSE IF answer.kind = "raise"
    THEN [prompted |-> TRUE, call |-> <<>>, printed |-> "none", raised |-> answer.v[1]]
    ELSE IF Lower(answer.v) # <<"n", "o">>
    THEN [prompted |-> TRUE, call |-> <<[op |-> op, id |-> args[1]]>>,
          printed |-> "done", raised |-> "none"]
    ELSE [prompted |-> TRUE, call |-> <<>>, printed |-> "cancelled", raised |-> "none"]

\* start_instance / stop_instance (op is the provider call each makes):
\* whether the prompt was shown, the provider call issued, what was printed
ConfirmedCall(op, args, answer) ==
    IF args = <<>> THEN NoEffect("usage")
    ELSE IF answer.kind = "raise"
    THEN [prompted |-> TRUE, call |-> <<>>, printed |-> "none", raised |-> answer.v[1]]
    ELSE IF Lower(answer.v) = S_yes
    THEN [prompted |-> TRUE, call |-> <<[op |-> op, id |-> args[1]]>>,
          printed |-> "done", raised |-> "none"]
    ELSE [prompted |-> TRUE, call |-> <<>>, printed |-> "cancelled", raised |-> "none"]

\* handle_ec2 via subcommand_dispatch: args[0].lower() selects the handler
HandleEc2(args, answer) ==
    IF args = <<>> THEN NoEffect("usage")
    ELSE LET sub == Lower(args[1])
             remaining == Tail(args)
         IN CASE sub = S_startInstance -> ConfirmedCall("start_instances", remaining, answer)
              [] sub = S_stopInstance -> ConfirmedCall("stop_instances", remaining, answer)
              [] sub = S_listInstances -> NoEffect("table")
              [] sub \in {S_describeInstance, S_getConfig} ->
                   IF remaining = <<>> THEN NoEffect("usage") ELSE NoEffect("json")
              [] OTHER -> NoEffect("unknown_subcommand")

Ec2Init == ShellIdle /\ TablesIdle

\* the line `ec2 <args>` is dispatched to handle_ec2
Ec2Command(args, answer) ==
    /\ Len(providerCalls) < MaxCalls
    /\ LET r == HandleEc2(args, answer) IN
       /\ providerCalls' = providerCalls \o r.call
       /\ lastCmd' = [kind |-> "ec2", args |-> args,
                      answer |-> IF r.prompted THEN answer ELSE [kind |-> "none"],
                      prompted |-> r.prompted, printed |-> r.printed, raised |-> r.raised]
    /\ UNCHANGED nonEc2Vars

Ec2Next == \E args \in Ec2Args, answer \in Answers : Ec2Command(args, answer)

SpecEc2 == Ec2Init /\ [][Ec2Next]_vars

\* C20: a start or stop call reaches the provider only in a start-instance
\* or stop-instance command that was given an instance id and whose
\* confirmation prompt was answered "yes" in any letter case, and it is the
\* call for that instance; every other command issues no such call.
C20_ConfirmBeforeChange ==
    [][lastCmd'.kind = "ec2" =>
         LET args == lastCmd'.args
             confirmed == /\ Len(args) >= 2
                          /\ Lower(args[1]) \in {S_startInstance, S_stopInstance}
                          /\ lastCmd'.prompted
                          /\ lastCmd'.answer.kind = "line"
                          /\ Lower(lastCmd'.answer.v) = S_yes
         IN IF confirmed
            THEN providerCalls' =
                   Append(providerCalls,
                          [op |-> IF Lower(args[1]) = S_startInstance
                                  THEN "start_instances" ELSE "stop_instances",
                           id |-> args[2]])
            ELSE providerCalls' = providerCalls]_vars

\* C20 witness: `ec2 stop-instance i-2` answered "no" made no call, then
\* `ec2 Start-Instance i-2` answered "YES" started the instance.
C20_Witness ==
    /\ providerCalls = <<[op |-> "start_instances", id |-> S_i2]>>
    /\ lastCmd.kind = "ec2" /\ lastCmd.args = <<S_StartInstance, S_i2>>
    /\ lastCmd.answer = Line(<<"Y", "E", "S">>)

(***************************************************************************)
(* Claims on field resolution                                              *)
(***************************************************************************)

\* the three lookups of the documented resolution order, and whether each
\* yields a value
LiteralValue(r, key) == DictGet(r, key)
PathValue(r, key) == Traverse(r, Split(key, "."))
HasTagKey(r, key) ==
    LET tagList == DictGet(r, K_Tags)
    IN /\ tagList.t = "list"
       /\ \E i \in 1..Len(tagList.v) :
            IsDict(tagList.v[i]) /\ DictGet(tagList.v[i], K_Key) = PyStr(key)

\* the value the documented order resolves: the first lookup yielding one
FirstResolved(r, key) ==
    IF LiteralValue(r, key).t # "none" THEN LiteralValue(r, key)
    ELSE IF PathValue(r, key).t # "none" THEN PathValue(r, key)
    ELSE IF HasTagKey(r, key) THEN TagValue(r, key)
    ELSE PyNone

\* C21: in filter(key=value) the field of each record is resolved by the
\* literal key, then the dotted path, then the tag list; a record for which
\* the first lookup yielding a value gives a string is in the result exactly
\* when that string satisfies the filter value.
C21_ResolutionOrder ==
    \A j \in FilterResults(1) :
      LET key == hist[j].kwargs[1][1]
          value == hist[j].kwargs[1][2]
          src == DataOf(hist[j].src)
      IN \A i \in 1..Len(src) :
           (IsDict(src[i]) /\ FirstResolved(src[i], key).t = "str" /\ value.t = "str")
           => (src[i] \in Range(DataOf(j))
               <=> WildMatch(value.v, FirstResolved(src[i], key).v))

(***************************************************************************)
(* SpecLine: one line of the main REPL, from the prompt to the provider    *)
(* (app.py: AWSShell.run, AWSShell._execute; shlex.split)                  *)
(***************************************************************************)

\* shlex.split(text): the POSIX-mode scanner of the standard library, from
\* character i on.  state is " " between tokens, "a" inside a word, a quote
\* character inside a quoted part, "\\" after a backslash (back is the state
\* to return to); tok is the token being read, acc the tokens read.  A quote
\* left open or a trailing backslash is the ValueError.
RECURSIVE ShlexScan(_, _, _, _, _, _)
ShlexScan(s, i, state, back, tok, acc) ==
    IF i > Len(s)
    THEN CASE state = " " -> [ok |-> TRUE, parts |-> acc]
           [] state = "a" -> [ok |-> TRUE, parts |-> Append(acc, tok)]
           [] OTHER -> [ok |-> FALSE, parts |-> <<>>]
    ELSE LET c == s[i] IN
         CASE state = " " ->
                IF c \in Whitespace THEN ShlexScan(s, i + 1, " ", back, <<>>, acc)
                ELSE IF c = "\\" THEN ShlexScan(s, i + 1, "\\", "a", <<>>, acc)
                ELSE IF c \in {"'", "\""} THEN ShlexScan(s, i + 1, c, back, <<>>, acc)
                ELSE ShlexScan(s, i + 1, "a", back, <<c>>, acc)
           [] state = "a" ->
                IF c \in Whitespace THEN ShlexScan(s, i + 1, " ", back, <<>>, Append(acc, tok))
                ELSE IF c = "\\" THEN ShlexScan(s, i + 1, "\\", "a", tok, acc)
                ELSE IF c \in {"'", "\""} THEN ShlexScan(s, i + 1, c, back, tok, acc)
                ELSE ShlexScan(s, i + 1, "a", back, Append(tok, c), acc)
           [] state = "\\" ->
                ShlexScan(s, i + 1, back, back,
                          IF back = "\"" /\ c \notin {"\\", "\""}
                          THEN tok \o <<"\\", c>> ELSE Append(tok, c),
                          acc)
           [] OTHER ->
                IF c = state THEN ShlexScan(s, i + 1, "a", back, tok, acc)
                ELSE IF c = "\\" /\ state = "\"" THEN ShlexScan(s, i + 1, "\\", state, tok, acc)
                ELSE ShlexScan(s, i + 1, state, back, Append(tok, c), acc)

ShlexSplit(text) == ShlexScan(text, 1, " ", "a", <<>>, <<>>)

\* the lines typed at the prompt
Lines ==
    {<<>>,
     <<" ", " ", " ">>,
     <<"\t">>,
     <<"e", "c", "2">>,
     <<"E", "C", "2", " ", "S", "t", "a", "r", "t", "-", "I", "n", "s", "t", "a", "n", "c", "e", " ", "i", "-", "2">>,
     <<" ", "e", "c", "2", " ", "s", "t", "o", "p", "-", "i", "n", "s", "t", "a", "n", "c", "e", " ", "i", "-", "2", " ">>,
     <<"e", "c", "2", " ", "s", "t", "a", "r", "t", "-", "i", "n", "s", "t", "a", "n", "c", "e", " ", "'", "i", "-", "1">>,
     <<"e", "c", "2", " ", "\"", "s", "t", "a", "r", "t", "-", "i", "n", "s", "t", "a", "n", "c", "e">>,
     <<"e", "c", "2", " ", "s", "t", "a", "r", "t", "-", "i", "n", "s", "t", "a", "n", "c", "e", " ", "\"", "i", "-", "1", "\"">>,
     <<"p", "y">>,
     <<"f", "o", "o", " ", "l", "s">>,
     <<"e", "c", "2", " ", "l", "i", "s", "t", "-", "i", "n", "s", "t", "a", "n", "c", "e", "s">>,
     <<"e", "c", "2", " ", "\\">>}

\* the registry after _register_all, as far as the lines above reach it
LineCommands == RegisterEntry(RegisterEntry(<<>>, N_ec2, "handle_ec2"), N_py, "cmd_python")

LineInit ==
    /\ commands = LineCommands
    /\ regLog = <<[name |-> N_ec2, handler |-> "handle_ec2"],
                  [name |-> N_py, handler |-> "cmd_python"]>>
    /\ startInPython = FALSE
    /\ pc = "prompt"
    /\ escaped = "none"
    /\ steps = 0
    /\ caught = 0
    /\ last = NoCall
    /\ TablesIdle /\ AiIdle /\ ReplIdle /\ Ec2Idle /\ ChatIdle /\ SessIdle

\* what the handler invoked for `command` with `args` does: the provider
\* calls it issues and the ways it can end.  handle_ec2 ends with the
\* exception of its confirmation prompt, or returns, or raises the error of
\* a provider call; the other handlers as Outcomes says.
HandlerRuns(command, args, answer) ==
    IF command \notin DOMAIN LineCommands THEN {[call |-> <<>>, outcome |-> "return"]}
    ELSE IF LineCommands[command] = "handle_ec2"
    THEN LET r == HandleEc2(args, answer)
         IN IF r.raised # "none" THEN {[call |-> r.call, outcome |-> r.raised]}
            ELSE IF r.printed \in {"done", "table", "json"}
            THEN {[call |-> r.call, outcome |-> o] : o \in {"return", "Exception"}}
            ELSE {[call |-> r.call, outcome |-> "return"]}
    ELSE {[call |-> <<>>, outcome |-> o] : o \in Outcomes(LineCommands[command])}

\* the state after run() has handled a line for which dispatch was called
\* with (command, args)
Dispatched(line, typed, command, args, answer) ==
    \E h \in HandlerRuns(command, args, answer) :
      LET d == Dispatch(commands, command, h.outcome) IN
      /\ last' = [kind |-> "dispatch", where |-> "loop", line |-> line, typed |-> typed,
                  command |-> command, registered |-> Registered(commands, command),
                  outcome |-> h.outcome, invoked |-> d.invoked,
                  printed |-> d.printed, raised |-> d.raised,
                  dispatched |-> <<[command |-> command, args |-> args]>>]
      /\ providerCalls' = providerCalls \o h.call
      /\ pc' = AfterLoopBody(d.raised)
      /\ escaped' = IF AfterLoopBody(d.raised) = "crashed" THEN d.raised ELSE "none"
      /\ caught' = IF d.printed = "error" THEN caught + 1 ELSE caught

\* the state after run() has handled a line without calling dispatch
NotDispatched(line, kind, printed) ==
    /\ last' = [kind |-> kind, line |-> line, printed |-> printed, invoked |-> "none",
                dispatched |-> <<>>]
    /\ pc' = "prompt"
    /\ UNCHANGED <<providerCalls, escaped, caught>>

\* one iteration of the loop in which a line with malformed quoting is
\* split at its blanks and dispatched
ReadLineSplitOnError(line, answer) ==
    /\ pc = "prompt" /\ steps < MaxSteps
    /\ steps' = steps + 1
    /\ LET text == StripLine(line)
           sp == ShlexSplit(text)
           parts == IF sp.ok THEN sp.parts ELSE Split(text, " ")
       IN IF text = <<>> THEN NotDispatched(line, "empty", "none")
          ELSE Dispatched(line, parts[1], Lower(parts[1]), Tail(parts), answer)
    /\ UNCHANGED <<commands, regLog, startInPython, lastCmd>>
    /\ UNCHANGED <<tableVars, aiVars, replVars, chatVars, sessVars>>

\* one iteration of the loop of run() for a line read at the prompt:
\* strip, `if not text: continue`, then _execute(text): shlex.split, the
\* parse error, or dispatch(parts[0].lower(), parts[1:])
ReadLine(line, answer) ==
    /\ pc = "prompt" /\ steps < MaxSteps
    /\ steps' = steps + 1
    /\ LET text == StripLine(line)
           sp == ShlexSplit(text)
       IN IF text = <<>> THEN NotDispatched(line, "empty", "none")
          ELSE IF ~sp.ok THEN NotDispatched(line, "parse_error", "parse_error")
          ELSE Dispatched(line, sp.parts[1], Lower(sp.parts[1]), Tail(sp.parts), answer)
    /\ UNCHANGED <<commands, regLog, startInPython, lastCmd>>
    /\ UNCHANGED <<tableVars, aiVars, replVars, chatVars, sessVars>>

LineNext == \E line \in Lines, answer \in Answers : ReadLine(line, answer)

SpecLine == LineInit /\ [][LineNext]_vars

\* C23: an empty or whitespace-only line dispatches nothing; a line with
\* malformed quoting prints the parse error, invokes no handler and issues
\* no provider call; after both the loop reads the next line; a well-formed
\* line is dispatched exactly once, with its first token in lower case as
\* the command and the remaining tokens as the arguments.
C23_InputErrorsAreNoOps ==
    [][steps' = steps + 1 =>
         LET text == StripLine(last'.line)
             sp == ShlexSplit(text)
             noOp == /\ last'.dispatched = <<>> /\ last'.invoked = "none"
                     /\ providerCalls' = providerCalls
                     /\ commands' = commands /\ caught' = caught
                     /\ pc' = "prompt" /\ escaped' = "none"
         IN CASE text = <<>> -> noOp /\ last'.printed = "none"
              [] text # <<>> /\ ~sp.ok -> noOp /\ last'.printed = "parse_error"
              [] OTHER ->
                   /\ last'.dispatched = <<[command |-> Lower(sp.parts[1]),
                                            args |-> Tail(sp.parts)]>>
                   /\ Len(providerCalls') <= Len(providerCalls) + 1]_vars

\* C23 witness: a confirmed `ec2 start-instance "i-1"` reached the provider,
\* and the line `ec2 start-instance 'i-1` typed after it was reported as a
\* parse error with nothing dispatched; the shell is at its prompt again.
C23_Witness ==
    /\ last.kind = "parse_error"
    /\ last.line = <<"e", "c", "2", " ", "s", "t", "a", "r", "t", "-", "i", "n", "s", "t", "a", "n", "c", "e", " ", "'", "i", "-", "1">>
    /\ providerCalls = <<[op |-> "start_instances", id |-> S_i1]>>
    /\ pc = "prompt"

(***************************************************************************)
(* SpecMeta: chains of calls and integer indexing (utils/table.py)         *)
(***************************************************************************)

\* __getitem__ with an int: self._data[idx], by the rules of list indexing
GetItemOut(data, idx) ==
    LET k == IF idx < 0 THEN idx + Len(data) ELSE idx
    IN IF k < 0 \/ k >= Len(data) THEN [kind |-> "raise"]
       ELSE [kind |-> "record", idx |-> idx, value |-> data[k + 1]]

\* tables[t][idx]
GetItem(t, idx) ==
    /\ t \in 1..Len(tables)
    /\ Show(t, "getitem", GetItemOut(DataOf(t), idx), out.renders)

MetaRecords == {R_Web2, R_scalar}
IndexArgs == {0, -1}

\* ResourceTable(data, columns, title) built by a command handler
MetaInit ==
    /\ ShellIdle
    /\ \E data \in SeqsUpTo(MetaRecords, MaxLen), m \in Metas :
         /\ heap = <<data>>
         /\ tables = <<[data |-> 1, columns |-> m.columns, title |-> m.title]>>
    /\ hist = <<[op |-> "new", src |-> 0]>>
    /\ err = "none"
    /\ out = NoOut

\* any call on any collection created so far
MetaNext ==
    \E t \in 1..Len(tables) :
      \/ Filter(t, <<<<K_Name, PyStr(S_webStar)>>>>)
      \/ FilterByFn(t, "is_dict")
      \/ Sort(t, K_Name, TRUE)
      \/ \E keyword \in FindKeywords : FindRows(t, keyword)
      \/ Select(t, <<<<"I", "d", ":", "I", "D">>, <<"N", "a", "m", "e", ":", " ", "N">>>>)
      \/ GetSlice(t, PyNone, PyInt(1))
      \/ \E idx \in IndexArgs : GetItem(t, idx)

SpecMeta == MetaInit /\ [][MetaNext]_vars

\* the columns and the title the chain of calls that produced collection j
\* gives it: those of the last select, that of the last find, or else those
\* of the collection the handler built
RECURSIVE ChainColumns(_)
ChainColumns(j) ==
    CASE hist[j].op = "new" -> tables[j].columns
      [] hist[j].op = "select" ->
           PyList([i \in 1..Len(hist[j].keys) |->
                     LET parts == Split(hist[j].keys[i], ":")
                     IN <<Strip(parts[1]), Strip(parts[Len(parts)])>>])
      [] OTHER -> ChainColumns(hist[j].src)

RECURSIVE ChainTitle(_)
ChainTitle(j) ==
    CASE hist[j].op = "new" -> tables[j].title
      [] hist[j].op = "find" ->
           PyStr(<<"S", "e", "a", "r", "c", "h", ":", " ", "'">> \o hist[j].keyword \o <<"'">>)
      [] OTHER -> ChainTitle(hist[j].src)

\* C24: an integer index returns the record at that position itself; a
\* slice, filter or sort returns a collection with the columns and title of
\* its source; select keeps the title and replaces the columns; find keeps
\* the columns and sets the title to "Search: '<keyword>'"; so every
\* collection has the columns of the last select of its chain and the title
\* of the last find.
C24_MetadataPropagation ==
    /\ \A j \in 2..Len(tables) :
         LET src == tables[hist[j].src] IN
         /\ hist[j].op \in {"slice", "filter", "filter_fn", "sort"}
            => tables[j].columns = src.columns /\ tables[j].title = src.title
         /\ hist[j].op = "select"
            => tables[j].title = src.title /\ tables[j].columns.t = "list"
               /\ Len(tables[j].columns.v) = Len(hist[j].keys)
         /\ hist[j].op = "find" => tables[j].columns = src.columns
    /\ \A j \in 1..Len(tables) :
         tables[j].columns = ChainColumns(j) /\ tables[j].title = ChainTitle(j)
    /\ (out.call = "getitem" /\ out.printed.kind = "record")
       => LET data == DataOf(out.t)
              idx == out.printed.idx
          IN out.printed.value = data[IF idx < 0 THEN Len(data) + idx + 1 ELSE idx + 1]

\* C24 witness: select, then find on its result, gave a collection with the
\* columns of the select and the search title, and indexing it with -1
\* returned its last record.
C24_Witness ==
    /\ Len(tables) = 3
    /\ hist[2].op = "select" /\ hist[2].src = 1
    /\ hist[3].op = "find" /\ hist[3].src = 2
    /\ tables[3].columns = tables[2].columns /\ tables[3].columns # tables[1].columns
    /\ tables[3].title # tables[1].title
    /\ out.call = "getitem" /\ out.t = 3 /\ out.printed.kind = "record"
    /\ out.printed.idx = -1 /\ out.printed.value = R_Web2

(***************************************************************************)
(* SpecBlock: the prompts of the Python REPL with the compiler computed    *)
(* (commands/python_cmd.py, cmd_python)                                    *)
(***************************************************************************)

\* the keys typed into the buffer
BlockKeys == {"x", " ", "\t", "(", ")"}

\* bound on the length of the buffer
MaxBlock == 6

\* py_session.prompt(">>> ") has not returned yet
PromptOpen == IF entered.kind = "none" THEN TRUE ELSE entered.decision = "INCOMPLETE"

\* a character is typed at the end of the buffer
BlockKey(c) ==
    /\ PromptOpen
    /\ Len(buf) < MaxBlock
    /\ buf' = Append(buf, c)
    /\ UNCHANGED entered
    /\ UNCHANGED nonReplVars

\* Enter, the compiler being codeop on the text of the buffer
BlockEnter ==
    /\ PromptOpen
    /\ Len(buf) < MaxBlock
    /\ EnterKey(Compile(buf))

\* the loop of cmd_python comes round to py_session.prompt(">>> ") again
NextPrompt ==
    /\ ~PromptOpen
    /\ entered.loop # "break"
    /\ entered' = [kind |-> "none"]
    /\ buf' = <<>>
    /\ UNCHANGED nonReplVars

BlockNext ==
    \/ \E c \in BlockKeys : BlockKey(c)
    \/ BlockEnter
    \/ NextPrompt

SpecBlock == ReplInit /\ [][BlockNext]_vars

\* a step in which Enter was pressed
EnterStep == entered' # entered /\ entered'.kind = "enter"

AiArgs == {<<>>, <<<<"c", "l", "e", "a", "r">>>>, <<<<"C", "l", "e", "a", "r">>>>,
           <<<<"c", "l", "e", "a", "r">>, <<"i", "t">>>>}

\* the command lines _extract_commands finds in a response
C_stop == <<"E", "C", "2", " ", "s", "t", "o", "p", "-", "i", "n", "s", "t", "a", "n", "c", "e", " ", "i", "-", "2">>
C_exit == <<"e", "x", "i", "t">>
C_open == <<"s", "3", " ", "l", "s", " ", "'", "x">>
Suggested == {<<>>, <<C_stop, C_exit>>, <<C_open, C_stop>>}

\* what _call_llm does: it returns the text of a response (here with the
\* command lines it suggests), returns None after printing an error, or is
\* left by KeyboardInterrupt while the answer is awaited
Replies == {[kind |-> "text", commands |-> c] : c \in Suggested}
             \cup {[kind |-> "none"], [kind |-> "raise"]}

\* what input("Execute? [y/N]: ") does at the approval prompt
ApprovalAnswers == {Line(<<"y">>), Line(<<" ", "Y", "E", "S", " ">>), Line(<<"n">>),
                    Raises("EOFError"), Raises("KeyboardInterrupt")}

\* how the dispatch of an approved command ends
DispatchEnds == {"return", "KeyboardInterrupt"}

\* bound on the messages of the history
MaxMsgs == 4

User(content) == [role |-> "user", content |-> content]
Assistant(reply) == [role |-> "assistant", content |-> reply.commands]

\* answer in ("y", "yes") after .strip().lower()
Approves(answer) ==
    answer.kind = "line" /\ Lower(StripLine(answer.v)) \in {<<"y">>, <<"y", "e", "s">>}

\* the loop without the approval test
ApprovalLoopNoPrompt(cmds, answers, ends, i, acc) ==
    [dispatched |-> [k \in 1..Len(SelectSeq(cmds, LAMBDA c : ShlexSplit(c).ok)) |->
                       LET c == SelectSeq(cmds, LAMBDA x : ShlexSplit(x).ok)[k]
                       IN [index |-> CHOOSE n \in 1..Len(cmds) : cmds[n] = c,
                           command |-> Lower(ShlexSplit(c).parts[1]),
                           args |-> Tail(ShlexSplit(c).parts)]],
     prompted |-> Len(cmds), raised |-> "none"]

\* _execute_with_approval from command i on: the dispatch calls made, the
\* prompts shown and the exception that ended the loop, if any
RECURSIVE ApprovalLoop(_, _, _, _, _)
ApprovalLoop(cmds, answers, ends, i, acc) ==
    IF i > Len(cmds) THEN acc
    ELSE LET asked == [acc EXCEPT !.prompted = acc.prompted + 1]
             sp == ShlexSplit(cmds[i])
         IN IF ~Approves(answers[i]) THEN ApprovalLoop(cmds, answers, ends, i + 1, asked)
            ELSE IF ~sp.ok THEN ApprovalLoop(cmds, answers, ends, i + 1, asked)
            ELSE LET call == [index |-> i, command |-> Lower(sp.parts[1]),
                              args |-> Tail(sp.parts)]
                     done == [asked EXCEPT !.dispatched = Append(asked.dispatched, call)]
                 IN IF ends[i] = "return"
                    THEN ApprovalLoop(cmds, answers, ends, i + 1, done)
                    ELSE [done EXCEPT !.raised = ends[i]]

ExecuteWithApproval(cmds, answers, ends) ==
    ApprovalLoop(cmds, answers, ends, 1,
                 [dispatched |-> <<>>, prompted |-> 0, raised |-> "none"])

NoApproval == [dispatched |-> <<>>, prompted |-> 0, raised |-> "none"]

\* cmd_ai(args, config, session_manager, registry): the history it leaves
\* and what it did; fromShell says that a registry was passed
CmdAi(msgs, args, fromShell, reply, answers, ends) ==
    IF args = <<>> THEN [messages |-> msgs, did |-> "usage", run |-> NoApproval]
    ELSE IF Len(args) = 1 /\ Lower(args[1]) = <<"c", "l", "e", "a", "r">>
    THEN [messages |-> <<>>, did |-> "clear", run |-> NoApproval]
    ELSE LET asked == Append(msgs, User(Join(args, <<" ">>)))
         IN CASE reply.kind = "raise" ->
                   [messages |-> asked, did |-> "interrupted",
                    run |-> [NoApproval EXCEPT !.raised = "KeyboardInterrupt"]]
              [] reply.kind = "none" ->
                   [messages |-> SubSeq(asked, 1, Len(asked) - 1), did |-> "failed",
                    run |-> NoApproval]
              [] OTHER ->
                   [messages |-> Append(asked, Assistant(reply)), did |-> "answered",
                    run |-> IF fromShell /\ reply.commands # <<>>
                            THEN ExecuteWithApproval(reply.commands, answers, ends)
                            ELSE NoApproval]

AssistInit == ShellIdle /\ TablesIdle

\* one ai command, from the shell (registry passed) or from the Python REPL
Ai(args, fromShell, reply, answers, ends) ==
    /\ Len(messages) + 2 <= MaxMsgs
    /\ LET r == CmdAi(messages, args, fromShell, reply, answers, ends) IN
       /\ messages' = r.messages
       /\ aiRun' = [kind |-> "ai", args |-> args, fromShell |-> fromShell, did |-> r.did,
                    commands |-> IF r.did = "answered" THEN reply.commands ELSE <<>>,
                    answers |-> IF r.did = "answered" /\ r.run.prompted > 0
                                THEN answers ELSE <<>>,
                    before |-> messages,
                    dispatched |-> r.run.dispatched, prompted |-> r.run.prompted,
                    raised |-> r.run.raised]
    /\ UNCHANGED nonChatVars

AssistNext ==
    \E args \in AiArgs, fromShell \in BOOLEAN, reply \in Replies :
      LET n == IF reply.kind = "text" THEN Len(reply.commands) ELSE 0
      IN \E answers \in [1..n -> ApprovalAnswers], ends \in [1..n -> DispatchEnds] :
           Ai(args, fromShell, reply, answers, ends)

SpecAssist == AssistInit /\ [][AssistNext]_vars

\* C26: a command suggested by the assistant is dispatched only when the
\* prompt for that very command was answered y or yes; with any other
\* answer, or with end-of-input or an interrupt at the prompt, the command
\* is skipped and the next one is asked about; an ai command run from the
\* Python REPL dispatches nothing.
C26_ApprovalGating ==
    [][aiRun'.kind = "ai" =>
         LET cmds == aiRun'.commands
             said(i) == aiRun'.answers[i]
             yes(i) == /\ said(i).kind = "line"
                       /\ Lower(StripLine(said(i).v)) \in {<<"y">>, <<"y", "e", "s">>}
             calls == aiRun'.dispatched
         IN /\ \A k \in 1..Len(calls) :
                 /\ calls[k].index \in 1..Len(cmds)
                 /\ yes(calls[k].index)
                 /\ ShlexSplit(cmds[calls[k].index]).ok
                 /\ calls[k].command = Lower(ShlexSplit(cmds[calls[k].index]).parts[1])
                 /\ calls[k].args = Tail(ShlexSplit(cmds[calls[k].index]).parts)
                 /\ \A m \in 1..(k - 1) : calls[m].index < calls[k].index
            /\ aiRun'.prompted > 0
               => \A i \in 1..aiRun'.prompted :
                    ~yes(i) => /\ \A k \in 1..Len(calls) : calls[k].index # i
                               /\ (i < Len(cmds) => aiRun'.prompted > i)
            /\ ~aiRun'.fromShell => calls = <<>> /\ aiRun'.prompted = 0]_vars

\* C26 witness: the assistant suggested two commands to the shell; the
\* prompt for the first was ended by end-of-input and the command skipped,
\* the second was approved with " YES " and dispatched.
C26_Witness ==
    /\ aiRun.kind = "ai" /\ aiRun.fromShell /\ aiRun.commands = <<C_open, C_stop>>
    /\ aiRun.answers[1] = Raises("EOFError")
    /\ aiRun.answers[2] = Line(<<" ", "Y", "E", "S", " ">>)
    /\ aiRun.prompted = 2
    /\ aiRun.dispatched = <<[index |-> 2, command |-> <<"e", "c", "2">>,
                             args |-> <<S_stopInstance, S_i2>>]>>

\* user and assistant messages alternate, from a user message to an
\* assistant message
Alternating(msgs) ==
    /\ Len(msgs) % 2 = 0
    /\ \A i \in 1..Len(msgs) :
         msgs[i].role = (IF i % 2 = 1 THEN "user" ELSE "assistant")

\* C27: after every ai command (answered, failed, interrupted while the
\* answer is awaited, or ai clear) the history is empty or alternates
\* user/assistant from a user message to an assistant message, and an ai
\* command that gets no answer leaves the history as it was.
C27_HistoryAlternates ==
    /\ Alternating(messages)
    /\ (aiRun.kind = "ai" /\ aiRun.did \in {"failed", "interrupted"})
       => messages = aiRun.before

(***************************************************************************)
(* SpecSession: the configuration and the session manager, one command at  *)
(* a time (config.py, utils/aws_session.py, commands/general.py,           *)
(* toolbar.py)                                                             *)
(***************************************************************************)

S_prod == <<"p", "r", "o", "d">>
S_euWest1 == <<"e", "u", "-", "w", "e", "s", "t", "-", "1">>
S_sts == <<"s", "t", "s">>
S_ec2 == <<"e", "c", "2">>
A_profile == <<"p", "r", "o", "f", "i", "l", "e">>
A_region == <<"r", "e", "g", "i", "o", "n">>
A_outputFormat == <<"o", "u", "t", "p", "u", "t", "_", "f", "o", "r", "m", "a", "t">>
A_llmModel == <<"l", "l", "m", "_", "m", "o", "d", "e", "l">>

\* profile_name=None: the provider's default credential chain
NoProfile == <<>>

UseProfileArgs == {<<>>, <<S_prod>>, <<S_default, S_prod>>}
SetRegionArgs == {<<>>, <<S_euWest1>>}
SetOutputArgs == {<<>>, <<<<"J", "S", "O", "N">>>>, <<S_text, S_json>>, <<S_table>>,
                  <<<<"x", "m", "l">>>>}
SetConfigArgs == {<<A_profile>>, <<A_profile, S_prod>>, <<A_region, S_euWest1>>,
                  <<A_outputFormat, <<"x", "m", "l">>>>,
                  <<<<"o", "u", "t", "p", "u", "t", ".", "f", "o", "r", "m", "a", "t">>, S_json>>,
                  <<<<"l", "l", "m", ".", "m", "o", "d", "e", "l">>, <<"o", "p", "u", "s">>, <<"4">>>>,
                  <<<<"a", ".", "b", ".", "c">>, S_text>>}
Services == {S_sts, S_ec2}

\* bound on the sessions built
MaxSessions == 3

\* bound on the clients created
MaxClients == 3

\* hasattr(self, name) for the flat attributes that __init__ sets for the
\* configuration keys used here
HasAttr(name) == name \in {A_profile, A_region, A_outputFormat, A_llmModel}

\* setattr(self, name, value), as far as profile, region and output_format go
SetAttr(cfg, name, value) ==
    CASE name = A_profile -> [cfg EXCEPT !.profile = value]
      [] name = A_region -> [cfg EXCEPT !.region = value]
      [] name = A_outputFormat -> [cfg EXCEPT !.output_format = value]
      [] OTHER -> cfg

\* ShellConfig.set_config(key, value), for profile, region and output_format
ConfigSetConfig(cfg, key, value) ==
    LET parts == Split(key, ".")
    IN IF Len(parts) = 1 THEN SetAttr(cfg, parts[1], value)
       ELSE IF Len(parts) = 2
       THEN LET attr_name == parts[1] \o <<"_">> \o parts[2]
            IN IF HasAttr(attr_name) THEN SetAttr(cfg, attr_name, value) ELSE cfg
       ELSE cfg

\* ShellConfig.set_output(fmt): the configuration and the value returned
ConfigSetOutput(cfg, fmt) ==
    IF fmt \in {S_table, S_json, S_text}
    THEN [config |-> [cfg EXCEPT !.output_format = fmt], ok |-> TRUE]
    ELSE [config |-> cfg, ok |-> FALSE]

\* the cache key of AWSSessionManager.client
ClientKey(service, region, profile) == Join(<<service, region, profile>>, <<":">>)

\* self._session.client(service_name, region_name=self.config.region)
NewClient(n, service, sess, region) ==
    [id |-> n, service |-> service, session |-> sess.id, profile |-> sess.profile,
     region |-> region]

Put(dict, key, value) ==
    [k \in DOMAIN dict \cup {key} |-> IF k = key THEN value ELSE dict[k]]

\* AWSSessionManager.client(service_name), run without interruption, on the
\* session manager m = [config, session, clients, accountId, created]
ManagerClient(m, service) ==
    LET key == ClientKey(service, m.config.region, m.config.profile)
    IN IF key \in DOMAIN m.clients THEN [m |-> m, client |-> m.clients[key]]
       ELSE LET c == NewClient(Len(m.created) + 1, service, m.session, m.config.region)
            IN [m |-> [m EXCEPT !.clients = Put(m.clients, key, c),
                                !.created = Append(m.created,
                                                   [key |-> key, client |-> c])],
                client |-> c]

\* AWSSessionManager._rebuild_session; ok says that the provider accepted
\* the profile
RebuildSession(m, ok) ==
    [m EXCEPT !.clients = <<>>,
              !.accountId = [kind |-> "none"],
              !.session = NewSession(m.session.id + 1,
                                     IF ok THEN m.config.profile ELSE NoProfile,
                                     m.config.region)]

\* switch_profile and switch_region
SwitchProfile(m, profile, ok) ==
    RebuildSession([m EXCEPT !.config = [m.config EXCEPT !.profile = profile]], ok)

SwitchRegion(m, region, ok) ==
    RebuildSession([m EXCEPT !.config = [m.config EXCEPT !.region = region]], ok)

\* get_account_id_cached; idok says that sts.get_caller_identity() answered
GetAccountIdCached(m, idok) ==
    IF m.accountId.kind # "none" THEN m
    ELSE LET r == ManagerClient(m, S_sts)
         IN [r.m EXCEPT !.accountId = IF idok
                                      THEN [kind |-> "id", profile |-> r.client.profile]
                                      ELSE [kind |-> "na"]]

Manager ==
    [config |-> config, session |-> session, clients |-> clients,
     accountId |-> accountId, created |-> created]

SetManager(m) ==
    /\ config' = m.config /\ session' = m.session /\ clients' = m.clients
    /\ accountId' = m.accountId /\ created' = m.created

SessionInit == ShellIdle /\ TablesIdle

AtPrompt == sessLast.op = "toolbar"

\* the shell is at its prompt and takes the next command
Ready == AtPrompt /\ Len(created) < MaxClients

\* get_toolbar, called by AWSShell.run before every prompt
GetToolbar(idok) ==
    /\ ~AtPrompt
    /\ LET m == GetAccountIdCached(Manager, idok) IN
       /\ SetManager(m)
       /\ sessLast' = [op |-> "toolbar"]
    /\ UNCHANGED <<sessPc, sessLoc>>
    /\ UNCHANGED nonSessVars

\* cmd_use_profile
UseProfile(args, ok) ==
    /\ Ready /\ session.id < MaxSessions
    /\ IF args = <<>> THEN SetManager(Manager)
       ELSE SetManager(ManagerClient(SwitchProfile(Manager, args[1], ok), S_sts).m)
    /\ sessLast' = [op |-> "use-profile"]
    /\ UNCHANGED <<sessPc, sessLoc>>
    /\ UNCHANGED nonSessVars

\* cmd_set_region
SetRegion(args, ok) ==
    /\ Ready /\ session.id < MaxSessions
    /\ IF args = <<>> THEN SetManager(Manager)
       ELSE SetManager(SwitchRegion(Manager, args[1], ok))
    /\ sessLast' = [op |-> "set-region"]
    /\ UNCHANGED <<sessPc, sessLoc>>
    /\ UNCHANGED nonSessVars

\* cmd_set_output
SetOutput(args) ==
    /\ Ready
    /\ LET r == IF args = <<>> THEN [config |-> config, ok |-> FALSE]
                ELSE ConfigSetOutput(config, Lower(args[1])) IN
       /\ config' = r.config
       /\ sessLast' = [op |-> "set-output", ok |-> r.ok]
    /\ UNCHANGED <<session, clients, accountId, created, sessPc, sessLoc>>
    /\ UNCHANGED nonSessVars

\* cmd_set_config
SetConfig(args) ==
    /\ Ready
    /\ config' = IF Len(args) < 2 THEN config
                 ELSE ConfigSetConfig(config, args[1], Join(Tail(args), <<" ">>))
    /\ sessLast' = [op |-> "set-config"]
    /\ UNCHANGED <<session, clients, accountId, created, sessPc, sessLoc>>
    /\ UNCHANGED nonSessVars

\* client(service) of the Python REPL, and cmd_whoami for sts
ClientCall(service) ==
    /\ Ready
    /\ LET r == ManagerClient(Manager, service) IN
       /\ SetManager(r.m)
       /\ sessLast' = [op |-> "client", service |-> service, returned |-> r.client]
    /\ UNCHANGED <<sessPc, sessLoc>>
    /\ UNCHANGED nonSessVars

SessionNext ==
    \/ \E idok \in BOOLEAN : GetToolbar(idok)
    \/ \E args \in UseProfileArgs, ok \in BOOLEAN : UseProfile(args, ok)
    \/ \E args \in SetRegionArgs, ok \in BOOLEAN : SetRegion(args, ok)
    \/ \E args \in SetOutputArgs : SetOutput(args)
    \/ \E args \in SetConfigArgs : SetConfig(args)
    \/ \E service \in Services : ClientCall(service)

SpecSession == SessionInit /\ [][SessionNext]_vars

\* C28: whenever the shell is at its prompt the session was built for the
\* profile and region of the configuration, no cached client and no cached
\* account id was obtained under another profile than the one the
\* configuration shows, and client(service) returns a client of the
\* configured profile.
C28_SessionFollowsConfig ==
    /\ AtPrompt =>
         /\ session.profile = config.profile /\ session.region = config.region
         /\ \A k \in DOMAIN clients : clients[k].profile = config.profile
         /\ accountId.kind = "id" => accountId.profile = config.profile
    /\ sessLast.op = "client" => sessLast.returned.profile = config.profile

\* C30: the output format of the configuration is always table, json or
\* text, and a set-output with any other value leaves it unchanged.
C30_OutputFormatValid ==
    /\ [](config.output_format \in {S_table, S_json, S_text})
    /\ [][(sessLast'.op = "set-output" /\ ~sessLast'.ok) => config' = config]_vars

(***************************************************************************)
(* SpecClients: AWSSessionManager used by the main thread and by the       *)
(* pre-warm worker at once, one read or write of shared state per step     *)
(* (utils/aws_session.py; commands/ai_cmd.py: _build_system_prompt;        *)
(* app.py: _init_ai_background)                                            *)
(***************************************************************************)

ClientsInit == ShellIdle /\ TablesIdle

\* the position and the locals of thread t change, the other thread's stay
Goto(t, to, loc) ==
    /\ sessPc' = [sessPc EXCEPT ![t] = to]
    /\ sessLoc' = [sessLoc EXCEPT ![t] = loc]

\* where a thread is when its call has returned: the worker makes one call
Returned(t) == IF t = "worker" THEN "done" ELSE "idle"

\* a thread enters client(service_name): the worker from
\* _build_system_prompt via get_caller_identity, the main thread from a
\* command
ClientStart(t, service) ==
    /\ sessPc[t] = "idle"
    /\ t = "worker" => service = S_sts
    /\ t = "main" => Len(created) < MaxClients
    /\ Goto(t, "region", [op |-> "client", service |-> service])
    /\ UNCHANGED <<config, session, clients, accountId, created, sessLast>>
    /\ UNCHANGED nonSessVars

\* key = f"{service_name}:{self.config.region}:{self.config.profile}":
\* self.config.region is read
ClientRegion(t) ==
    /\ sessPc[t] = "region"
    /\ Goto(t, "profile", [op |-> "client", service |-> sessLoc[t].service,
                           region |-> config.region])
    /\ UNCHANGED <<config, session, clients, accountId, created, sessLast>>
    /\ UNCHANGED nonSessVars

\* self.config.profile is read and the key is built
ClientProfile(t) ==
    /\ sessPc[t] = "profile"
    /\ Goto(t, "check",
            [op |-> "client", service |-> sessLoc[t].service,
             key |-> ClientKey(sessLoc[t].service, sessLoc[t].region, config.profile)])
    /\ UNCHANGED <<config, session, clients, accountId, created, sessLast>>
    /\ UNCHANGED nonSessVars

\* if key not in self._clients
ClientCheck(t) ==
    /\ sessPc[t] = "check"
    /\ Goto(t, IF sessLoc[t].key \in DOMAIN clients THEN "return" ELSE "create",
            sessLoc[t])
    /\ UNCHANGED <<config, session, clients, accountId, created, sessLast>>
    /\ UNCHANGED nonSessVars

\* self._session.client(service_name, region_name=self.config.region)
ClientCreate(t) ==
    /\ sessPc[t] = "create"
    /\ LET c == NewClient(Len(created) + 1, sessLoc[t].service, session, config.region) IN
       /\ created' = Append(created, [key |-> sessLoc[t].key, client |-> c])
       /\ Goto(t, "store", [op |-> "client", service |-> sessLoc[t].service,
                            key |-> sessLoc[t].key, new |-> c])
    /\ UNCHANGED <<config, session, clients, accountId, sessLast>>
    /\ UNCHANGED nonSessVars

\* self._clients[key] = ...
ClientStore(t) ==
    /\ sessPc[t] = "store"
    /\ clients' = Put(clients, sessLoc[t].key, sessLoc[t].new)
    /\ Goto(t, "return", [op |-> "client", service |-> sessLoc[t].service,
                          key |-> sessLoc[t].key])
    /\ UNCHANGED <<config, session, accountId, created, sessLast>>
    /\ UNCHANGED nonSessVars

\* return self._clients[key]: KeyError when the cache was cleared meanwhile
ClientReturn(t) ==
    /\ sessPc[t] = "return"
    /\ sessLast' = IF sessLoc[t].key \in DOMAIN clients
                   THEN [op |-> "client", service |-> sessLoc[t].service,
                         returned |-> clients[sessLoc[t].key], thread |-> t]
                   ELSE [op |-> "KeyError", thread |-> t]
    /\ Goto(t, Returned(t), [op |-> "none"])
    /\ UNCHANGED <<config, session, clients, accountId, created>>
    /\ UNCHANGED nonSessVars

\* the main thread enters switch_profile(value) or switch_region(value)
SwitchStart(attr, value) ==
    /\ sessPc["main"] = "idle" /\ session.id < MaxSessions
    /\ Goto("main", "set", [op |-> "switch", attr |-> attr, value |-> value])
    /\ UNCHANGED <<config, session, clients, accountId, created, sessLast>>
    /\ UNCHANGED nonSessVars

\* self.config.set_profile(profile) / self.config.set_region(region)
SwitchSet ==
    /\ sessPc["main"] = "set"
    /\ config' = SetAttr(config, sessLoc["main"].attr, sessLoc["main"].value)
    /\ Goto("main", "clear", sessLoc["main"])
    /\ UNCHANGED <<session, clients, accountId, created, sessLast>>
    /\ UNCHANGED nonSessVars

\* _rebuild_session: self._clients.clear()
SwitchClear ==
    /\ sessPc["main"] = "clear"
    /\ clients' = <<>>
    /\ Goto("main", "reset", sessLoc["main"])
    /\ UNCHANGED <<config, session, accountId, created, sessLast>>
    /\ UNCHANGED nonSessVars

\* _rebuild_session: self._account_id_cache = None
SwitchReset ==
    /\ sessPc["main"] = "reset"
    /\ accountId' = [kind |-> "none"]
    /\ Goto("main", "session", sessLoc["main"])
    /\ UNCHANGED <<config, session, clients, created, sessLast>>
    /\ UNCHANGED nonSessVars

\* _rebuild_session: self._session = boto3.Session(...)
SwitchSession(ok) ==
    /\ sessPc["main"] = "session"
    /\ session' = NewSession(session.id + 1,
                             IF ok THEN config.profile ELSE NoProfile, config.region)
    /\ sessLast' = [op |-> "switch", attr |-> sessLoc["main"].attr]
    /\ Goto("main", "idle", [op |-> "none"])
    /\ UNCHANGED <<config, clients, accountId, created>>
    /\ UNCHANGED nonSessVars

ClientsNext ==
    \/ \E t \in Threads, service \in Services : ClientStart(t, service)
    \/ \E t \in Threads : ClientRegion(t)
    \/ \E t \in Threads : ClientProfile(t)
    \/ \E t \in Threads : ClientCheck(t)
    \/ \E t \in Threads : ClientCreate(t)
    \/ \E t \in Threads : ClientStore(t)
    \/ \E t \in Threads : ClientReturn(t)
    \/ SwitchStart(A_profile, S_prod)
    \/ SwitchStart(A_region, S_euWest1)
    \/ SwitchSet
    \/ SwitchClear
    \/ SwitchReset
    \/ \E ok \in BOOLEAN : SwitchSession(ok)

SpecClients == ClientsInit /\ [][ClientsNext]_vars

\* C29: under every interleaving of the worker's client("sts") with the
\* main thread's client, switch_profile and switch_region calls, whenever
\* the main thread is not inside a switch every client cached under a key
\* of the current region and profile was created from the current session,
\* and no two clients were created for one key from the same session.
C29_ClientCache ==
    /\ sessPc["main"] \notin {"set", "clear", "reset", "session"}
       => \A service \in Services :
            LET key == ClientKey(service, config.region, config.profile)
            IN key \in DOMAIN clients => clients[key].session = session.id
    /\ \A i, j \in 1..Len(created) :
         (i < j /\ created[i].key = created[j].key)
         => created[i].client.session # created[j].client.session

====
